---- MODULE Spec2Model ----
(***************************************************************************)
(* slipstream: the Vectorizable adapter (src/src/iterators.rs).            *)
(*                                                                         *)
(* A slice of base values, or a tuple or array of slices, is turned into   *)
(* an iterator (VectorizedIter) of lane vectors (shared slice) or of       *)
(* write-back proxies (mutable slice).  The model keeps the backing        *)
(* memory, the iterator's fields, every item handed to the caller and the  *)
(* current state of every item in the caller's hands.                      *)
(*                                                                         *)
(* Option<T> is a sequence of length at most one: None is the empty        *)
(* sequence, Some(x) the sequence holding x.  Slices are 1-based           *)
(* sequences, so the code's element i is the model's element i+1; window   *)
(* indexes stay 0-based as in the code.                                    *)
(***************************************************************************)
EXTENDS Integers, Sequences, FiniteSets, TLC

\* ---------------------------------------------------------------- bounds
MaxLen == 5
MaxLanes == 3
MaxNth == 2
MaxAssign == 1
MaxTreeLanes == 5

\* The adapter moves base values and never inspects them, so the inputs are
\* taken with recognisable elements.  Base values are the integers modulo
\* 2 * MaxLen + 1; a slice is the ramp 1, 2, ..., a pad vector is a ramp that
\* starts like the slice or continues after its longest, and a lane function
\* adds a constant.
Modulus == 2 * MaxLen + 1
Values == 0..(Modulus - 1)
Ramp(n, a) == [i \in 1..n |-> (a + i) % Modulus]
LaneCounts == 2..MaxLanes
Slices == {Ramp(n, 0) : n \in 0..MaxLen}
Vectors(n) == {Ramp(n, a) : a \in {0, MaxLen}}
LaneFns == {[v \in Values |-> (v + k) % Modulus] : k \in {1, MaxLen}}

None == <<>>
Some(x) == <<x>>

VARIABLES
    pc,        \* "new": no iterator yet; "iter": iterating; "failed": vectorize or
               \* vectorize_pad panicked; "done": the iterator was consumed or
               \* dropped; "ub": Vectorizer::get's safety contract was broken
    input,     \* the type of the input and of the vectors asked for
    buf,       \* the backing memory: a slice, or one slice per constituent
    orig,      \* the memory as it was before vectorize / vectorize_pad
    padv,      \* the pad argument: None for vectorize(), Some(pad) for vectorize_pad(pad)
    fn,        \* the lane-wise function the caller assigns through proxies
    it,        \* VectorizedIter: [partial, vectorizer, left, right]
    out,       \* every item returned to the caller, in order: [item, src]
    proxies,   \* the current state of the item returned as out[k]
    call,      \* the call that consumed the iterator, if any: [op, ret, cnt]
    skips,     \* TRUE once nth(n) was called with n > 0
    vop        \* the operation called on a vector, its arguments and its outcome

\* The variables of the adapter, and all of them.
itervars == <<pc, input, buf, orig, padv, fn, it, out, proxies, call, skips>>
vars == <<pc, input, buf, orig, padv, fn, it, out, proxies, call, skips, vop>>

\* The input types: &[B] or &mut [B] vectorized into vectors of `lanes` lanes,
\* and tuples and arrays of those.
SliceInput(n, w) == [kind |-> "slice", lanes |-> n, writable |-> w]
TupleInput(ps) == [kind |-> "tuple", parts |-> ps]
ArrayInput(ps) == [kind |-> "array", parts |-> ps]
IsSlice(inp) == inp.kind = "slice"

\* ------------------------------------------------------- slices, vectors
\* *ptr for the element at 0-based position k of s.  A position outside s is
\* outside the allocation: the read is undefined, and every action that would
\* make one takes its undefined-behaviour branch instead of using this value.
read(s, k) == IF k + 1 \in 1..Len(s) THEN s[k + 1] ELSE 0

\* &s[from..from+n] of the code, as a sequence of n values.
Window(s, from, n) == [i \in 1..n |-> read(s, from + i - 1)]

\* Vector::new_unchecked(ptr): read LANES consecutive values starting at ptr.
new_unchecked(s, offset, n) == Window(s, offset, n)

\* dst[at..at+Len(src)].copy_from_slice(src)
copy_from_slice(dst, at, src) ==
    [i \in 1..Len(dst) |-> IF i > at /\ i <= at + Len(src) THEN src[i - at] ELSE dst[i]]

\* ----------------------------------------------------------- MutProxy
\* restore is the sub-slice of the backing slice at [start, start + len).
MutProxy(data, start, len) == [data |-> data, start |-> start, len |-> len]

\* The drop copying the last restore.len() lanes of data.
drop_from_last_lanes(p, s) ==
    copy_from_slice(s, p.start, Window(p.data, Len(p.data) - p.len, p.len))

\* impl Drop for MutProxy: restore.copy_from_slice(&data[..restore.len()])
drop(p, s) == copy_from_slice(s, p.start, Window(p.data, 0, p.len))

\* ------------------------------------------------------------- Partial
take_partial(p) == [partial |-> None, ret |-> p]
size(p) == Len(p)

\* ---------------------------------------------------------- Vectorizer
ReadVectorizer(n) == [kind |-> "read", lanes |-> n]
WriteVectorizer(n) == [kind |-> "write", lanes |-> n]
CompositeVectorizer(k, vs) == [kind |-> k, parts |-> vs]

\* get reading at the element idx instead of the window idx.
ReadVectorizer_get_unscaled(v, s, idx) == new_unchecked(s, idx, v.lanes)

ReadVectorizer_get(v, s, idx) == new_unchecked(s, v.lanes * idx, v.lanes)

\* get with the proxy's window at the element idx instead of the window idx.
WriteVectorizer_get_unscaled(v, s, idx) ==
    MutProxy(new_unchecked(s, idx, v.lanes), idx, v.lanes)

WriteVectorizer_get(v, s, idx) ==
    MutProxy(new_unchecked(s, v.lanes * idx, v.lanes), v.lanes * idx, v.lanes)

slice_get(v, s, idx) ==
    IF v.kind = "write" THEN WriteVectorizer_get(v, s, idx) ELSE ReadVectorizer_get(v, s, idx)

\* The composite's get asking the first constituent alone for idx.
composite_get_first_only(v, mem, idx) ==
    [k \in 1..Len(v.parts) |-> slice_get(v.parts[k], mem[k], IF k = 1 THEN idx ELSE 0)]

\* The tuple's and the array's get: the constituents' get, side by side.
composite_get(v, mem, idx) == [k \in 1..Len(v.parts) |-> slice_get(v.parts[k], mem[k], idx)]

get(v, mem, idx) ==
    IF v.kind \in {"read", "write"} THEN slice_get(v, mem, idx) ELSE composite_get(v, mem, idx)

\* The safety contract of Vectorizer::get: idx is in the range declared on
\* creation, that is, the window read lies inside the slice.
SliceInRange(v, s, idx) == idx >= 0 /\ v.lanes * idx + v.lanes <= Len(s)
InRange(v, mem, idx) ==
    IF v.kind \in {"read", "write"} THEN SliceInRange(v, mem, idx)
    ELSE \A k \in 1..Len(v.parts) : SliceInRange(v.parts[k], mem[k], idx)

\* ------------------------------------------------------------- create
\* The outcome of create.  ok = FALSE is a panic, named by err; unwound holds
\* the tail items that exist when the panic unwinds and are dropped by it.
\* Otherwise len is the number of full vectors and partial the tail item.
Created(v, len, partial) ==
    [ok |-> TRUE, vectorizer |-> v, len |-> len, partial |-> partial,
     err |-> "", unwound |-> <<>>]
Panic(err, unwound) ==
    [ok |-> FALSE, vectorizer |-> ReadVectorizer(0), len |-> 0, partial |-> None,
     err |-> err, unwound |-> unwound]

\* create leaving the remainder out when no pad is given.
create_read_truncates(inp, s, pad) ==
    LET len == Len(s)
        rest == len % inp.lanes
        main == len - rest
    IN  IF rest # 0 /\ pad # None
        THEN Created(ReadVectorizer(inp.lanes), main \div inp.lanes,
                     Some(copy_from_slice(pad[1], 0, Window(s, main, rest))))
        ELSE Created(ReadVectorizer(inp.lanes), main \div inp.lanes, None)

\* create making a tail item whenever a pad is given.
create_read_always_pads(inp, s, pad) ==
    LET len == Len(s)
        rest == len % inp.lanes
        main == len - rest
    IN  IF pad # None
        THEN Created(ReadVectorizer(inp.lanes), main \div inp.lanes,
                     Some(copy_from_slice(pad[1], 0, Window(s, main, rest))))
        ELSE IF rest = 0 THEN Created(ReadVectorizer(inp.lanes), main \div inp.lanes, None)
        ELSE Panic("Data to vectorize not divisible by lanes", <<>>)

\* impl Vectorizable<V> for &[B].  The "Slice too huge" assertion holds for every
\* slice considered and is left out.
create_read(inp, s, pad) ==
    LET len == Len(s)
        rest == len % inp.lanes
        main == len - rest
    IN  IF rest = 0 THEN Created(ReadVectorizer(inp.lanes), main \div inp.lanes, None)
        ELSE IF pad # None
        THEN Created(ReadVectorizer(inp.lanes), main \div inp.lanes,
                     Some(copy_from_slice(pad[1], 0, Window(s, main, rest))))
        ELSE Panic("Data to vectorize not divisible by lanes", <<>>)

\* create taking the tail proxy's snapshot from the start of the slice.
create_write_snapshot_from_start(inp, s, pad) ==
    LET len == Len(s)
        rest == len % inp.lanes
        main == len - rest
    IN  IF rest = 0 THEN Created(WriteVectorizer(inp.lanes), main \div inp.lanes, None)
        ELSE IF pad # None
        THEN Created(WriteVectorizer(inp.lanes), main \div inp.lanes,
                     Some(MutProxy(copy_from_slice(pad[1], 0, Window(s, 0, rest)),
                                   main, rest)))
        ELSE Panic("Data to vectorize not divisible by lanes", <<>>)

\* create leaving the pad in the tail proxy without the slice's tail over it.
create_write_tail_not_copied(inp, s, pad) ==
    LET len == Len(s)
        rest == len % inp.lanes
        main == len - rest
    IN  IF rest = 0 THEN Created(WriteVectorizer(inp.lanes), main \div inp.lanes, None)
        ELSE IF pad # None
        THEN Created(WriteVectorizer(inp.lanes), main \div inp.lanes,
                     Some(MutProxy(pad[1], main, rest)))
        ELSE Panic("Data to vectorize not divisible by lanes", <<>>)

\* impl Vectorizable<MutProxy> for &mut [B]
create_write(inp, s, pad) ==
    LET len == Len(s)
        rest == len % inp.lanes
        main == len - rest
    IN  IF rest = 0 THEN Created(WriteVectorizer(inp.lanes), main \div inp.lanes, None)
        ELSE IF pad # None
        THEN Created(WriteVectorizer(inp.lanes), main \div inp.lanes,
                     Some(MutProxy(copy_from_slice(pad[1], 0, Window(s, main, rest)),
                                   main, rest)))
        ELSE Panic("Data to vectorize not divisible by lanes", <<>>)

slice_create(inp, s, pad) ==
    IF inp.writable THEN create_write(inp, s, pad) ELSE create_read(inp, s, pad)

\* The tail items of the constituents 1..upto, one Option per constituent.
Partials(created, upto) == [j \in 1..upto |-> created[j].partial]

\* The tuple's create comparing the lengths of the slices themselves.
tuple_create_compares_slice_lengths(inp, mem, pad) ==
    LET n == Len(inp.parts)
        pads == [k \in 1..n |-> IF pad # None THEN Some(pad[1][k]) ELSE None]
        created == [k \in 1..n |-> slice_create(inp.parts[k], mem[k], pads[k])]
        bad == {k \in 1..n : ~created[k].ok}
        first == CHOOSE k \in bad : \A j \in bad : k <= j
        lens == {k \in 1..n : Len(mem[1]) # Len(mem[k]) \/ created[1].len # created[k].len}
        pds == {k \in 1..n : (created[1].partial # None) # (created[k].partial # None)}
    IN  IF bad # {} THEN Panic(created[first].err, Partials(created, first - 1))
        ELSE IF lens # {}
        THEN Panic("Vectorizing data of different lengths", Partials(created, n))
        ELSE IF pds # {}
        THEN Panic("Paddings are not the same for all vectorized data", Partials(created, n))
        ELSE Created(CompositeVectorizer("tuple", [k \in 1..n |-> created[k].vectorizer]),
                     created[1].len,
                     IF created[1].partial # None
                     THEN Some([k \in 1..n |-> created[k].partial[1]]) ELSE None)

\* The tuple's create without the comparison of the lengths.
tuple_create_ignores_lengths(inp, mem, pad) ==
    LET n == Len(inp.parts)
        pads == [k \in 1..n |-> IF pad # None THEN Some(pad[1][k]) ELSE None]
        created == [k \in 1..n |-> slice_create(inp.parts[k], mem[k], pads[k])]
        bad == {k \in 1..n : ~created[k].ok}
        first == CHOOSE k \in bad : \A j \in bad : k <= j
        pds == {k \in 1..n : (created[1].partial # None) # (created[k].partial # None)}
    IN  IF bad # {} THEN Panic(created[first].err, Partials(created, first - 1))
        ELSE IF pds # {}
        THEN Panic("Paddings are not the same for all vectorized data", Partials(created, n))
        ELSE Created(CompositeVectorizer("tuple", [k \in 1..n |-> created[k].vectorizer]),
                     created[1].len,
                     IF created[1].partial # None
                     THEN Some([k \in 1..n |-> created[k].partial[1]]) ELSE None)

\* vectorizable_tuple!: every constituent is created, left to right, then the
\* lengths and the paddings are compared with the first constituent's.  A
\* panic unwinds through the tuple `created`, dropping what it holds.
tuple_create(inp, mem, pad) ==
    LET n == Len(inp.parts)
        pads == [k \in 1..n |-> IF pad # None THEN Some(pad[1][k]) ELSE None]
        created == [k \in 1..n |-> slice_create(inp.parts[k], mem[k], pads[k])]
        bad == {k \in 1..n : ~created[k].ok}
        first == CHOOSE k \in bad : \A j \in bad : k <= j
        lens == {k \in 1..n : created[1].len # created[k].len}
        pds == {k \in 1..n : (created[1].partial # None) # (created[k].partial # None)}
        firstLen == CHOOSE k \in lens : \A j \in lens : k <= j
        firstPad == CHOOSE k \in pds : \A j \in pds : k <= j
    IN  IF bad # {} THEN Panic(created[first].err, Partials(created, first - 1))
        ELSE IF lens # {} /\ (pds = {} \/ firstLen <= firstPad)
        THEN Panic("Vectorizing data of different lengths", Partials(created, n))
        ELSE IF pds # {}
        THEN Panic("Paddings are not the same for all vectorized data", Partials(created, n))
        ELSE Created(CompositeVectorizer("tuple", [k \in 1..n |-> created[k].vectorizer]),
                     created[1].len,
                     IF created[1].partial # None
                     THEN Some([k \in 1..n |-> created[k].partial[1]]) ELSE None)

\* vectorizable_arr!: the constituents are created in a loop that compares each
\* size with the first; the paddings are compared after the loop.  The tail
\* items are moved into a MaybeUninit array, which a panic does not drop.
array_create(inp, mem, pad) ==
    LET n == Len(inp.parts)
        created == [k \in 1..n |->
            slice_create(inp.parts[k], mem[k], IF pad # None THEN Some(pad[1][k]) ELSE None)]
        bad == {k \in 1..n : ~created[k].ok \/ created[1].len # created[k].len}
        first == CHOOSE k \in bad : \A j \in bad : k <= j
        seen_some_pad == \E k \in 1..n : created[k].partial # None
        seen_none_pad == \E k \in 1..n : created[k].partial = None
    IN  IF bad # {}
        THEN IF ~created[first].ok THEN Panic(created[first].err, <<>>)
             ELSE Panic("Vectorized lengths inconsistent across the array",
                        [j \in 1..n |-> IF j = first THEN created[j].partial ELSE None])
        ELSE IF seen_some_pad /\ seen_none_pad
        THEN Panic("Paddings inconsistent across the array", <<>>)
        ELSE Created(CompositeVectorizer("array", [k \in 1..n |-> created[k].vectorizer]),
                     created[1].len,
                     IF seen_some_pad
                     THEN Some([k \in 1..n |-> created[k].partial[1]]) ELSE None)

create(inp, mem, pad) ==
    IF inp.kind = "slice" THEN slice_create(inp, mem, pad)
    ELSE IF inp.kind = "tuple" THEN tuple_create(inp, mem, pad)
    ELSE array_create(inp, mem, pad)

\* ------------------------------------------------------ VectorizedIter
VectorizedIter(partial, vectorizer, left, right) ==
    [partial |-> partial, vectorizer |-> vectorizer, left |-> left, right |-> right]

\* Every call returns [it, ret, src, dropped]: the iterator afterwards, the
\* Option returned, the index asked of the vectorizer (None when the vectorizer
\* was not asked) and the Option dropped inside the call.
Result(i, ret, src, dropped) == [it |-> i, ret |-> ret, src |-> src, dropped |-> dropped]

next(i, mem) ==
    IF i.left < i.right
    THEN Result([i EXCEPT !.left = i.left + 1],
                Some(get(i.vectorizer, mem, i.left)), Some(i.left), None)
    ELSE LET t == take_partial(i.partial)
         IN  Result([i EXCEPT !.partial = t.partial], t.ret, None, None)

\* size_hint counting the full windows only.
size_hint_without_partial(i) ==
    LET len == i.right - i.left
    IN  <<len, Some(len)>>

\* (len, Some(len))
size_hint(i) ==
    LET len == (i.right - i.left) + size(i.partial)
    IN  <<len, Some(len)>>

count(i) == size_hint(i)[1]

\* nth with `main_len > n` for its test.
nth_strict(i, mem, n) ==
    LET main_len == i.right - i.left
    IN  IF main_len > n
        THEN next([i EXCEPT !.left = i.left + n], mem)
        ELSE LET t == take_partial(i.partial)
             IN  Result([i EXCEPT !.left = i.right, !.partial = t.partial], None, None, t.ret)

nth(i, mem, n) ==
    LET main_len == i.right - i.left
    IN  IF main_len >= n
        THEN next([i EXCEPT !.left = i.left + n], mem)
        ELSE LET t == take_partial(i.partial)
             IN  Result([i EXCEPT !.left = i.right, !.partial = t.partial], None, None, t.ret)

\* next_back returning the full windows before the tail.
next_back_partial_last(i, mem) ==
    IF i.left < i.right
    THEN Result([i EXCEPT !.right = i.right - 1],
                Some(get(i.vectorizer, mem, i.right - 1)), Some(i.right - 1), None)
    ELSE LET t == take_partial(i.partial)
         IN  Result([i EXCEPT !.partial = t.partial], t.ret, None, None)

\* next_back with `left <= right` for its test.
next_back_inclusive(i, mem) ==
    LET t == take_partial(i.partial)
    IN  IF t.ret # None
        THEN Result([i EXCEPT !.partial = t.partial], t.ret, None, None)
        ELSE IF i.left <= i.right
        THEN Result([i EXCEPT !.right = i.right - 1],
                    Some(get(i.vectorizer, mem, i.right - 1)), Some(i.right - 1), None)
        ELSE Result(i, None, None, None)

next_back(i, mem) ==
    LET t == take_partial(i.partial)
    IN  IF t.ret # None
        THEN Result([i EXCEPT !.partial = t.partial], t.ret, None, None)
        ELSE IF i.left < i.right
        THEN Result([i EXCEPT !.right = i.right - 1],
                    Some(get(i.vectorizer, mem, i.right - 1)), Some(i.right - 1), None)
        ELSE Result(i, None, None, None)

last(i, mem) == next_back(i, mem)

\* ------------------------------------------------------------- items
\* An item is a vector (from &[B]), a MutProxy (from &mut [B]) or, for a
\* tuple or an array, the sequence of its constituents' items.
HasProxy(inp) ==
    IF IsSlice(inp) THEN inp.writable ELSE \E k \in 1..Len(inp.parts) : inp.parts[k].writable

\* The item goes out of scope: the write-back for a proxy, nothing for a vector.
slice_item_drop(inp, item, s) == IF inp.writable THEN drop(item, s) ELSE s

item_drop(inp, item, mem) ==
    IF IsSlice(inp) THEN slice_item_drop(inp, item, mem)
    ELSE [k \in 1..Len(mem) |-> slice_item_drop(inp.parts[k], item[k], mem[k])]

drop_option(inp, o, mem) == IF o # None THEN item_drop(inp, o[1], mem) ELSE mem

\* A panic of create unwinds: the tail items already created are dropped.
unwind(inp, unwound, mem) ==
    IF IsSlice(inp) THEN mem
    ELSE [k \in 1..Len(mem) |->
            IF k <= Len(unwound) THEN drop_option(inp.parts[k], unwound[k], mem[k])
            ELSE mem[k]]

\* *proxy = f(*proxy), through DerefMut: only the proxy's own vector changes.
slice_item_assign(inp, item, f) ==
    IF inp.writable THEN [item EXCEPT !.data = [i \in 1..Len(@) |-> f[@[i]]]] ELSE item

item_assign(inp, item, f) ==
    IF IsSlice(inp) THEN slice_item_assign(inp, item, f)
    ELSE [k \in 1..Len(item) |-> slice_item_assign(inp.parts[k], item[k], f)]

\* ------------------------------------------------------------- Vector
\* A vector of S lanes is the sequence of its lanes; S is the type's const
\* parameter and the first parameter of the operators below.  A call returns
\* a value or panics: val is the value returned or, for the stores, the
\* output slice as the call leaves it.
Returned(val) == [ok |-> TRUE, val |-> val, err |-> ""]
Panicked(val, err) == [ok |-> FALSE, val |-> val, err |-> err]

\* ----------------------------------------------------------------- Mask
\* A value of a mask type: bool, or the native MaskWrapper over an unsigned
\* integer of MaskBits bits (m8).  Its bits are the integer it is stored as.
MaskBits == 8
MaskTypes == {"bool", "m8"}
Mask_TRUE(ty) == [ty |-> ty, bits |-> IF ty = "bool" THEN 1 ELSE 2 ^ MaskBits - 1]
Mask_FALSE(ty) == [ty |-> ty, bits |-> 0]

\* Mask::bool.  Its last branch is unreachable_unchecked(): undefined, and
\* taken by no value safe code can build (MaskWrapper's field is private), so
\* no mask drawn below takes it; the value written for it is unspecified.
bool(m) ==
    IF m = Mask_TRUE(m.ty) THEN TRUE
    ELSE IF m = Mask_FALSE(m.ty) THEN FALSE
    ELSE CHOOSE b \in BOOLEAN : TRUE

\* from_bool leaving the lowest bit only for true.
from_bool_low_bit(ty, v) == [ty |-> ty, bits |-> IF v THEN 1 ELSE 0]

\* Mask::from_bool
from_bool(ty, v) == IF v THEN Mask_TRUE(ty) ELSE Mask_FALSE(ty)

\* gather_load accepting the index one past the end of the slice.
gather_load_bound_inclusive(S, data, idx) ==
    IF S # Len(idx) THEN Panicked(<<>>, "Gathering vector from wrong number of indexes")
    ELSE IF ~(\A k \in 1..Len(idx) : idx[k] <= Len(data))
    THEN Panicked(<<>>, "Gather out of bounds")
    ELSE Returned([i \in 1..S |-> read(data, idx[i])])

\* Vector::gather_load; data is the slice `input`.
gather_load(S, data, idx) ==
    IF S # Len(idx) THEN Panicked(<<>>, "Gathering vector from wrong number of indexes")
    ELSE IF ~(\A k \in 1..Len(idx) : idx[k] < Len(data))
    THEN Panicked(<<>>, "Gather out of bounds")
    ELSE Returned([i \in 1..S |-> read(data, idx[i])])

\* gather_load_masked checking every lane's index, as gather_load does.
gather_load_masked_checks_all(S, self, data, idx, mask) ==
    IF S # Len(idx) THEN Panicked(<<>>, "Gathering vector from wrong number of indexes")
    ELSE IF S # Len(mask) THEN Panicked(<<>>, "Gathering with wrong sized mask")
    ELSE IF \E i \in 1..S : idx[i] >= Len(data)
    THEN Panicked(<<>>, "index out of bounds")
    ELSE Returned([i \in 1..S |-> IF bool(mask[i]) THEN read(data, idx[i]) ELSE self[i]])

\* Vector::gather_load_masked; data is the slice `input`.  The loop assigns
\* self[i] = input[idx] for the enabled lanes, and input[idx] panics when idx
\* is out of bounds; self is the callee's own copy.
gather_load_masked(S, self, data, idx, mask) ==
    IF S # Len(idx) THEN Panicked(<<>>, "Gathering vector from wrong number of indexes")
    ELSE IF S # Len(mask) THEN Panicked(<<>>, "Gathering with wrong sized mask")
    ELSE IF \E i \in 1..S : bool(mask[i]) /\ idx[i] >= Len(data)
    THEN Panicked(<<>>, "index out of bounds")
    ELSE Returned([i \in 1..S |-> IF bool(mask[i]) THEN read(data, idx[i]) ELSE self[i]])

\* The store one element further than asked.
write_next(s, k, x) == [j \in 1..Len(s) |-> IF j = k + 2 THEN x ELSE s[j]]

\* *output.get_unchecked_mut(k) = x.  A k outside the slice is undefined; the
\* callers below have checked every k they pass.
write(s, k, x) == [j \in 1..Len(s) |-> IF j = k + 1 THEN x ELSE s[j]]

\* The store loop `for i in 0..S`, from lane i on: the lanes with enabled[i]
\* are stored, in ascending order.
RECURSIVE store_from(_, _, _, _, _, _)
store_from(S, self, output, idx, enabled, i) ==
    IF i > S THEN output
    ELSE store_from(S, self,
                    IF enabled[i] THEN write(output, idx[i], self[i]) ELSE output,
                    idx, enabled, i + 1)

\* A store loop that checks each index as it comes to it.
RECURSIVE store_checked_from(_, _, _, _, _)
store_checked_from(S, self, output, idx, i) ==
    IF i > S THEN Returned(output)
    ELSE IF idx[i] >= Len(output) THEN Panicked(output, "Scatter out of bounds")
    ELSE store_checked_from(S, self, write(output, idx[i], self[i]), idx, i + 1)

\* scatter_store without the check before the loop.
scatter_store_checks_in_loop(S, self, output, idx) ==
    IF S # Len(idx) THEN Panicked(output, "Scattering vector to wrong number of indexes")
    ELSE store_checked_from(S, self, output, idx, 1)

\* Vector::scatter_store
scatter_store(S, self, output, idx) ==
    IF S # Len(idx) THEN Panicked(output, "Scattering vector to wrong number of indexes")
    ELSE IF ~(\A k \in 1..Len(idx) : idx[k] < Len(output))
    THEN Panicked(output, "Scatter out of bounds")
    ELSE Returned(store_from(S, self, output, idx, [i \in 1..S |-> TRUE], 1))

\* scatter_store_masked storing every lane.
scatter_store_masked_stores_all(S, self, output, idx, mask) ==
    IF S # Len(idx) THEN Panicked(output, "Scattering vector to wrong number of indexes")
    ELSE IF S # Len(mask) THEN Panicked(output, "Scattering vector with wrong sized mask")
    ELSE IF ~(\A i \in 1..S : ~bool(mask[i]) \/ idx[i] < Len(output))
    THEN Panicked(output, "Scatter out of bounds")
    ELSE Returned(store_from(S, self, output, idx, [i \in 1..S |-> TRUE], 1))

\* Vector::scatter_store_masked
scatter_store_masked(S, self, output, idx, mask) ==
    IF S # Len(idx) THEN Panicked(output, "Scattering vector to wrong number of indexes")
    ELSE IF S # Len(mask) THEN Panicked(output, "Scattering vector with wrong sized mask")
    ELSE LET in_bounds == \A i \in 1..S : ~bool(mask[i]) \/ idx[i] < Len(output)
         IN  IF ~in_bounds THEN Panicked(output, "Scatter out of bounds")
             ELSE Returned(store_from(S, self, output, idx,
                                      [i \in 1..S |-> bool(mask[i])], 1))

\* blend taking the enabled lanes from self.
blend_swapped(S, self, other, mask) ==
    IF Len(mask) < S THEN Panicked(<<>>, "index out of bounds")
    ELSE Returned([i \in 1..S |-> IF bool(mask[i]) THEN self[i] ELSE other[i]])

\* Vector::blend.  mask[i] is a checked index into the mask container: a
\* container of fewer than S lanes panics, the lanes beyond S are not read.
blend(S, self, other, mask) ==
    IF Len(mask) < S THEN Panicked(<<>>, "index out of bounds")
    ELSE Returned([i \in 1..S |-> IF bool(mask[i]) THEN other[i] ELSE self[i]])

\* The native mask type of the base type (B::Mask): m8 for the 8-bit bases.
NativeMask == "m8"

\* self.data[i].$op(&other.data[i]) of cmp_op!, for the five methods.
scalar_cmp(op, a, b) ==
    IF op = "eq" THEN a = b
    ELSE IF op = "lt" THEN a < b
    ELSE IF op = "gt" THEN a > b
    ELSE IF op = "le" THEN a <= b
    ELSE a >= b

\* cmp_op!: the method $op of Vector.
cmp_op(S, op, self, other) ==
    [i \in 1..S |-> from_bool(NativeMask, scalar_cmp(op, self[i], other[i]))]

eq(S, self, other) == cmp_op(S, "eq", self, other)
lt(S, self, other) == cmp_op(S, "lt", self, other)
gt(S, self, other) == cmp_op(S, "gt", self, other)
le(S, self, other) == cmp_op(S, "le", self, other)
ge(S, self, other) == cmp_op(S, "ge", self, other)

\* Vector::maximum
maximum(S, self, other) ==
    LET m == lt(S, self, other)
    IN  blend(S, self, other, m).val

\* minimum with maximum's mask.
minimum_uses_lt(S, self, other) ==
    LET m == lt(S, self, other)
    IN  blend(S, self, other, m).val

\* Vector::minimum
minimum(S, self, other) ==
    LET m == gt(S, self, other)
    IN  blend(S, self, other, m).val

\* The horizontal reductions are generic in the base type B, of which they
\* use `+` or `*` alone.  They are taken at the base type of expressions: a
\* lane is a leaf <<x>>, Add and Mul build the node of their operands, so the
\* value returned is the order in which the lanes were combined.
Leaf(x) == <<x>>
Add(a, b) == <<"+", a, b>>
Mul(a, b) == <<"*", a, b>>

\* fn inner of horizontal_sum
RECURSIVE inner_sum(_)
inner_sum(d) ==
    IF Len(d) = 1 THEN d[1]
    ELSE LET mid == Len(d) \div 2
         IN  Add(inner_sum(SubSeq(d, 1, mid)), inner_sum(SubSeq(d, mid + 1, Len(d))))

\* fn inner of horizontal_product
RECURSIVE inner_product(_)
inner_product(d) ==
    IF Len(d) = 1 THEN d[1]
    ELSE LET mid == Len(d) \div 2
         IN  Mul(inner_product(SubSeq(d, 1, mid)), inner_product(SubSeq(d, mid + 1, Len(d))))

\* The sum folding the lanes from the left.
RECURSIVE horizontal_sum_left_fold(_)
horizontal_sum_left_fold(self) ==
    IF Len(self) <= 1 THEN self[1]
    ELSE Add(horizontal_sum_left_fold(SubSeq(self, 1, Len(self) - 1)), self[Len(self)])

\* Vector::horizontal_sum
horizontal_sum(self) == inner_sum(self)

\* Vector::horizontal_product
horizontal_product(self) == inner_product(self)

\* Vector::new taking the first S elements of a longer slice.
new_accepts_longer(S, data) ==
    IF Len(data) < S
    THEN Panicked(<<>>, "Creating vector from the wrong sized slice")
    ELSE Returned(new_unchecked(data, 0, S))

\* Vector::new: assert_eq!(input.len(), S), then new_unchecked(input.as_ptr()).
new(S, data) ==
    IF Len(data) # S
    THEN Panicked(<<>>, "Creating vector from the wrong sized slice")
    ELSE Returned(new_unchecked(data, 0, S))

\* Vector::store: output.copy_from_slice(&self[..]), which panics before it
\* copies when the two lengths differ.
store(S, self, output) ==
    IF Len(output) # Len(self)
    THEN Panicked(output, "source slice length does not match destination slice length")
    ELSE Returned(copy_from_slice(output, 0, self))

\* ------------------------------------------------------- the base type
\* The 8-bit bases of the registry: the plain u8 and Wrapping<u8>.  A lane of
\* either is the integer 0 .. 2^BaseBits - 1 it is stored as.
BaseBits == 8
Bases == {"u8", "Wrapping<u8>"}
BinOps == {"add", "sub", "mul", "div", "rem", "bitand", "bitor", "bitxor", "shl", "shr"}

\* `B: $tr<Output = B>`: the operators the base type has with itself on the
\* right.  Wrapping<u8> shifts by usize only, so its vectors have no shifts.
Supported(base, op) == base = "u8" \/ op \notin {"shl", "shr"}

\* The bitwise operator op on the lowest n bits of a and b.
RECURSIVE bitwise(_, _, _, _)
bitwise(op, a, b, n) ==
    IF n = 0 THEN 0
    ELSE LET x == a % 2
             y == b % 2
             bit == IF op = "bitand" THEN x * y
                    ELSE IF op = "bitor" THEN (IF x + y > 0 THEN 1 ELSE 0)
                    ELSE (x + y) % 2
         IN  bit + 2 * bitwise(op, a \div 2, b \div 2, n - 1)

\* The result of the scalar operator kept to BaseBits bits; for a shift, by
\* the amount kept to the bits that count.
wrapping(op, a, b) ==
    LET M == 2 ^ BaseBits
    IN  IF op = "add" THEN (a + b) % M
        ELSE IF op = "sub" THEN (a + M - b) % M
        ELSE IF op = "mul" THEN (a * b) % M
        ELSE IF op = "div" THEN (IF b = 0 THEN 0 ELSE a \div b)
        ELSE IF op = "rem" THEN (IF b = 0 THEN 0 ELSE a % b)
        ELSE IF op = "shl" THEN (a * 2 ^ (b % BaseBits)) % M
        ELSE IF op = "shr" THEN a \div 2 ^ (b % BaseBits)
        ELSE bitwise(op, a, b, BaseBits)

\* The result of u8's operator does not fit u8, or the shift is too long.
overflows(op, a, b) ==
    \/ op = "add" /\ a + b >= 2 ^ BaseBits
    \/ op = "sub" /\ a < b
    \/ op = "mul" /\ a * b >= 2 ^ BaseBits
    \/ op \in {"shl", "shr"} /\ b >= BaseBits

\* The scalar operator dividing by zero to zero.
scalar_op_divides_by_zero(base, checks, op, a, b) ==
    IF base = "u8" /\ checks /\ overflows(op, a, b)
    THEN Panicked(0, "arithmetic overflow")
    ELSE Returned(wrapping(op, a, b))

\* $tr::$meth(self.data[i], rhs.data[i]): the base type's own operator.
\* Division and remainder by zero panic for both bases; an overflow of u8
\* panics in a build with overflow checks and wraps in one without them.
scalar_op(base, checks, op, a, b) ==
    IF op \in {"div", "rem"} /\ b = 0 THEN Panicked(0, "attempt to divide by zero")
    ELSE IF base = "u8" /\ checks /\ overflows(op, a, b)
    THEN Panicked(0, "arithmetic overflow")
    ELSE Returned(wrapping(op, a, b))

\* The operator taking the first lane of rhs for every lane.
bin_op_impl_first_rhs_lane(S, base, checks, op, self, rhs) ==
    LET lane == [i \in 1..S |-> scalar_op(base, checks, op, self[i], rhs[1])]
        failed == {i \in 1..S : ~lane[i].ok}
    IN  IF failed # {}
        THEN Panicked(<<>>, lane[CHOOSE i \in failed : \A j \in failed : i <= j].err)
        ELSE Returned([i \in 1..S |-> lane[i].val])

\* bin_op_impl!: $meth of Vector with a vector on the right.  The lanes are
\* computed in order into uninitialized memory; the first scalar operator
\* that panics unwinds the call, and nothing of the result is to be seen.
bin_op_impl(S, base, checks, op, self, rhs) ==
    LET lane == [i \in 1..S |-> scalar_op(base, checks, op, self[i], rhs[i])]
        failed == {i \in 1..S : ~lane[i].ok}
    IN  IF failed # {}
        THEN Panicked(<<>>, lane[CHOOSE i \in failed : \A j \in failed : i <= j].err)
        ELSE Returned([i \in 1..S |-> lane[i].val])

\* --------------------------------------------------------- Sum, splat
\* Vector::splat
splat(S, value) == [i \in 1..S |-> value]

\* impl Default for Vector: splat(Default::default()), zero for the integers.
default(S) == splat(S, 0)

\* B's `+` and `*` where B is one of the bases: the value of an expression
\* of horizontal_sum or horizontal_product, or the panic of its first
\* operator that fails.
RECURSIVE base_value(_, _, _)
base_value(base, checks, t) ==
    IF Len(t) = 1 THEN Returned(t[1])
    ELSE LET l == base_value(base, checks, t[2])
             r == base_value(base, checks, t[3])
         IN  IF ~l.ok THEN l
             ELSE IF ~r.ok THEN r
             ELSE scalar_op(base, checks, IF t[1] = "+" THEN "add" ELSE "mul", l.val, r.val)

\* `for i in iter { result += i }`: add_assign of bin_op_impl! lane by lane,
\* until next() returns None.
RECURSIVE sum_loop(_, _, _, _, _, _)
sum_loop(S, base, checks, iter, mem, result) ==
    LET r == next(iter, mem)
    IN  IF r.ret = None THEN Returned(result)
        ELSE LET added == bin_op_impl(S, base, checks, "add", result, r.ret[1])
             IN  IF ~added.ok THEN added
                 ELSE sum_loop(S, base, checks, r.it, mem, added.val)

\* Sum starting from B::ONE in every lane, as Product does.
sum_starts_from_one(S, base, checks, iter, mem) ==
    sum_loop(S, base, checks, iter, mem, splat(S, 1))

\* impl Sum for Vector
sum(S, base, checks, iter, mem) ==
    sum_loop(S, base, checks, iter, mem, default(S))

\* data.vectorize_pad(V::default()).sum() and then horizontal_sum().
padded_sum(S, base, checks, data) ==
    LET c == create(SliceInput(S, FALSE), data, Some(default(S)))
        vtotal == sum(S, base, checks, VectorizedIter(c.partial, c.vectorizer, 0, c.len), data)
        total == base_value(base, checks, horizontal_sum([i \in 1..S |-> Leaf(vtotal.val[i])]))
    IN  IF ~vtotal.ok THEN Panicked(<<>>, vtotal.err)
        ELSE IF ~total.ok THEN Panicked(<<>>, total.err)
        ELSE total

\* ---------------------------------------------- the operators of a mask
\* The bits a mask type stores: one for bool, MaskBits for the MaskWrapper.
mask_width(ty) == IF ty = "bool" THEN 1 ELSE MaskBits

\* #[derive(Default)] of MaskWrapper, and bool's default.
Mask_default(ty) == [ty |-> ty, bits |-> 0]

\* trait_impl!: BitAnd, BitOr and BitXor of MaskWrapper are those of the
\* integer inside; bool has its own.
trait_impl(op, m, rhs) ==
    [ty |-> m.ty, bits |-> bitwise(op, m.bits, rhs.bits, mask_width(m.ty))]

\* Not negating the integer inside as a number.
not_negates(m) ==
    [ty |-> m.ty, bits |-> (2 ^ mask_width(m.ty) - m.bits) % 2 ^ mask_width(m.ty)]

\* impl Not for MaskWrapper: every bit of the integer inside flipped.
not(m) == [ty |-> m.ty, bits |-> 2 ^ mask_width(m.ty) - 1 - m.bits]

\* una_op_impl!(Not, not) on a vector of masks
una_op_impl(S, self) == [i \in 1..S |-> not(self[i])]

\* bin_op_impl! on vectors of masks, for BitAnd, BitOr and BitXor: the
\* operator of the lanes does not fail.
mask_bin_op(S, op, self, rhs) == [i \in 1..S |-> trait_impl(op, self[i], rhs[i])]

\* The record of a call on a vector: the method, the lane count, self, the
\* other vector, the slice and the index and mask containers passed, and the
\* outcome.  A field the method does not take is empty.
VOp(op, S, self, other, slice, idx, mask, ret) ==
    [op |-> op, lanes |-> S, self |-> self, other |-> other, slice |-> slice,
     idx |-> idx, mask |-> mask, ret |-> ret, base |-> "", checks |-> FALSE]
NoVop == VOp("none", 0, <<>>, <<>>, <<>>, <<>>, <<>>, Returned(<<>>))

\* ------------------------------------------------------------ the caller
NoCall == [op |-> "none", ret |-> None, cnt |-> 0]
Call(op, ret, cnt) == [op |-> op, ret |-> ret, cnt |-> cnt]

Identity == [v \in Values |-> v]

SliceInputs == {SliceInput(n, w) : n \in LaneCounts, w \in BOOLEAN}
TupleInputs == {TupleInput(<<a, b>>) : a \in SliceInputs, b \in SliceInputs}
ArrayInputs == {ArrayInput(<<SliceInput(n, FALSE), SliceInput(n, FALSE)>>) : n \in LaneCounts}

\* The pad arguments tried for an input.
PadsFor(inp) ==
    IF IsSlice(inp) THEN Vectors(inp.lanes)
    ELSE {[k \in 1..Len(inp.parts) |-> Ramp(inp.parts[k].lanes, a)] : a \in {0, MaxLen}}

InitWith(inputs) ==
    /\ pc = "new"
    /\ input \in inputs
    /\ buf \in (IF IsSlice(input) THEN Slices ELSE [1..Len(input.parts) -> Slices])
    /\ orig = buf
    /\ padv = None
    /\ fn \in (IF HasProxy(input) THEN LaneFns ELSE {Identity})
    /\ it = VectorizedIter(None, ReadVectorizer(0), 0, 0)
    /\ out = <<>>
    /\ proxies = <<>>
    /\ call = NoCall
    /\ skips = FALSE
    /\ vop = NoVop

\* One slice.
Init == InitWith(SliceInputs)

\* One slice, or a tuple or an array of two slices.
InitComposite == InitWith(SliceInputs \cup TupleInputs \cup ArrayInputs)

\* Indexes the vectorizer was asked for so far.
Asked == {out[k].src[1] : k \in {j \in 1..Len(out) : out[j].src # None}}

\* Vectorizer::get's safety contract for one more request.
ContractOK(idx) == InRange(it.vectorizer, buf, idx) /\ idx \notin Asked

\* An item in the caller's hands.
Held(item) == [item |-> item, st |-> "live", nassign |-> 0]

\* What a slice may hold after undefined behaviour: it is as it was, or any
\* one element of it holds any value.
HavocSlice(s) == {s} \cup {[s EXCEPT ![i] = v] : i \in 1..Len(s), v \in Values}
Havoc(mem) ==
    IF IsSlice(input) THEN HavocSlice(mem)
    ELSE UNION {{[mem EXCEPT ![k] = s] : s \in HavocSlice(mem[k])} : k \in 1..Len(mem)}

\* The caller receives the result r of a call on the iterator, which leaves
\* the iterator alive (after = "iter") or consumes it (after = "done").  A
\* request that breaks get's contract is undefined behaviour.
Deliver(r, after, skipped) ==
    IF r.src # None /\ ~ContractOK(r.src[1])
    THEN /\ pc' = "ub"
         /\ buf' \in Havoc(buf)
         /\ UNCHANGED <<vop, input, orig, padv, fn, it, out, proxies, call, skips>>
    ELSE /\ pc' = after
         /\ it' = r.it
         /\ buf' = drop_option(input, r.dropped, buf)
         /\ out' = IF r.ret # None THEN Append(out, [item |-> r.ret[1], src |-> r.src]) ELSE out
         /\ proxies' = IF r.ret # None /\ HasProxy(input)
                       THEN Append(proxies, Held(r.ret[1])) ELSE proxies
         /\ call' = IF after = "done" THEN Call("last", r.ret, 0) ELSE call
         /\ skips' = (skips \/ skipped)
         /\ UNCHANGED <<vop, input, orig, padv, fn>>

\* Vectorizable::vectorize
Vectorize ==
    /\ pc = "new"
    /\ LET c == create(input, buf, None)
           ok == c.ok /\ c.partial = None
       IN  /\ pc' = IF ok THEN "iter" ELSE "failed"
           /\ it' = IF ok THEN VectorizedIter(None, c.vectorizer, 0, c.len) ELSE it
           /\ buf' = unwind(input, c.unwound, buf)
    /\ UNCHANGED <<vop, input, orig, padv, fn, out, proxies, call, skips>>

\* Vectorizable::vectorize_pad
VectorizePad ==
    /\ pc = "new"
    /\ \E pad \in PadsFor(input) :
         LET c == create(input, buf, Some(pad))
         IN  /\ padv' = Some(pad)
             /\ pc' = IF c.ok THEN "iter" ELSE "failed"
             /\ it' = IF c.ok THEN VectorizedIter(c.partial, c.vectorizer, 0, c.len) ELSE it
             /\ buf' = unwind(input, c.unwound, buf)
    /\ UNCHANGED <<vop, input, orig, fn, out, proxies, call, skips>>

CallNext == pc = "iter" /\ Deliver(next(it, buf), "iter", FALSE)

CallNextBack == pc = "iter" /\ Deliver(next_back(it, buf), "iter", FALSE)

CallNth == pc = "iter" /\ \E n \in 0..MaxNth : Deliver(nth(it, buf, n), "iter", n > 0)

\* last(mut self): the iterator is consumed, what is left of it is dropped.
CallLast ==
    /\ pc = "iter"
    /\ LET r == last(it, buf)
       IN  Deliver([r EXCEPT !.dropped = r.it.partial], "done", FALSE)

\* count(self): the iterator is consumed and dropped with its partial in it.
CallCount ==
    /\ pc = "iter"
    /\ pc' = "done"
    /\ call' = Call("count", None, count(it))
    /\ buf' = drop_option(input, it.partial, buf)
    /\ UNCHANGED <<vop, input, orig, padv, fn, it, out, proxies, skips>>

\* The iterator goes out of scope.
DropIter ==
    /\ pc = "iter"
    /\ pc' = "done"
    /\ buf' = drop_option(input, it.partial, buf)
    /\ UNCHANGED <<vop, input, orig, padv, fn, it, out, proxies, call, skips>>

Live(k) == k \in 1..Len(proxies) /\ proxies[k].st = "live"

\* The assignment writing through to the slice at once.
ProxyAssign_writes_through ==
    /\ \E k \in 1..Len(proxies) :
         /\ Live(k)
         /\ proxies[k].nassign < MaxAssign
         /\ proxies' = [proxies EXCEPT ![k].item = item_assign(input, @, fn),
                                       ![k].nassign = @ + 1]
         /\ buf' = item_drop(input, item_assign(input, proxies[k].item, fn), buf)
    /\ UNCHANGED <<vop, pc, input, orig, padv, fn, it, out, call, skips>>

\* *proxy = fn(*proxy) on an item the caller holds.
ProxyAssign ==
    /\ \E k \in 1..Len(proxies) :
         /\ Live(k)
         /\ proxies[k].nassign < MaxAssign
         /\ proxies' = [proxies EXCEPT ![k].item = item_assign(input, @, fn),
                                       ![k].nassign = @ + 1]
    /\ UNCHANGED <<vop, pc, input, buf, orig, padv, fn, it, out, call, skips>>

\* The item goes out of scope: impl Drop for MutProxy.
ProxyDrop ==
    /\ \E k \in 1..Len(proxies) :
         /\ Live(k)
         /\ buf' = item_drop(input, proxies[k].item, buf)
         /\ proxies' = [proxies EXCEPT ![k].st = "dropped"]
    /\ UNCHANGED <<vop, pc, input, orig, padv, fn, it, out, call, skips>>

\* mem::forget(proxy): the destructor never runs.
ProxyForget ==
    /\ \E k \in 1..Len(proxies) :
         /\ Live(k)
         /\ proxies' = [proxies EXCEPT ![k].st = "leaked"]
    /\ UNCHANGED <<vop, pc, input, buf, orig, padv, fn, it, out, call, skips>>

Next ==
    \/ Vectorize
    \/ VectorizePad
    \/ CallNext
    \/ CallNextBack
    \/ CallNth
    \/ CallLast
    \/ CallCount
    \/ DropIter
    \/ ProxyAssign
    \/ ProxyDrop
    \/ ProxyForget

Spec == Init /\ [][Next]_vars

\* Slices, tuples and arrays: created, iterated from both ends, the items
\* assigned and dropped.
NextComposite ==
    \/ Vectorize
    \/ VectorizePad
    \/ CallNext
    \/ CallNextBack
    \/ DropIter
    \/ ProxyAssign
    \/ ProxyDrop

SpecComposite == InitComposite /\ [][NextComposite]_vars

\* ------------------------------------------------- the vector's caller
\* The vectors self is drawn from: ascending and descending lanes.
SelfVectors(S) == {Ramp(S, 0), [i \in 1..S |-> S + 1 - i]}

\* The slices gathered from and scattered to: no element is a lane of self.
VectorSlices == {Ramp(n, MaxLen) : n \in 0..MaxLanes}

\* Index containers of S lanes, one fewer and one more, over the indexes of a
\* slice of len elements and the first index past it.
IdxArgs(S, len) == UNION {[1..n -> 0..len] : n \in {S - 1, S, S + 1}}

\* Mask containers of n lanes: bool arrays and native mask vectors.
MasksOf(n) == UNION {[1..n -> {Mask_TRUE(ty), Mask_FALSE(ty)}] : ty \in MaskTypes}

\* The index and mask containers passed together: both of S lanes, or one of
\* them a lane short or a lane long.
MaskedArgs(S, len) ==
    ([1..S -> 0..len] \X MasksOf(S))
    \cup {<<[i \in 1..n |-> 0], m>> : n \in {S - 1, S + 1}, m \in MasksOf(S)}
    \cup {<<[i \in 1..S |-> 0], m>> : m \in MasksOf(S - 1) \cup MasksOf(S + 1)}

\* A vector type and a vector of it; nothing was called on it yet.
InitVector ==
    /\ pc = "vector"
    /\ input = SliceInput(0, FALSE)
    /\ buf = <<>> /\ orig = <<>> /\ padv = None /\ fn = Identity
    /\ it = VectorizedIter(None, ReadVectorizer(0), 0, 0)
    /\ out = <<>> /\ proxies = <<>> /\ call = NoCall /\ skips = FALSE
    /\ \E S \in LaneCounts : \E self \in SelfVectors(S) :
         vop = [NoVop EXCEPT !.lanes = S, !.self = self]

Fresh_vop == pc = "vector" /\ vop.op = "none"

Gather ==
    /\ Fresh_vop
    /\ \E data \in VectorSlices : \E idx \in IdxArgs(vop.lanes, Len(data)) :
         vop' = [vop EXCEPT !.op = "gather_load", !.slice = data, !.idx = idx,
                            !.ret = gather_load(vop.lanes, data, idx)]
    /\ UNCHANGED itervars

GatherMasked ==
    /\ Fresh_vop
    /\ \E data \in VectorSlices : \E a \in MaskedArgs(vop.lanes, Len(data)) :
         vop' = [vop EXCEPT !.op = "gather_load_masked", !.slice = data,
                            !.idx = a[1], !.mask = a[2],
                            !.ret = gather_load_masked(vop.lanes, vop.self, data, a[1], a[2])]
    /\ UNCHANGED itervars

Scatter ==
    /\ Fresh_vop
    /\ \E output \in VectorSlices : \E idx \in IdxArgs(vop.lanes, Len(output)) :
         vop' = [vop EXCEPT !.op = "scatter_store", !.slice = output, !.idx = idx,
                            !.ret = scatter_store(vop.lanes, vop.self, output, idx)]
    /\ UNCHANGED itervars

ScatterMasked ==
    /\ Fresh_vop
    /\ \E output \in VectorSlices : \E a \in MaskedArgs(vop.lanes, Len(output)) :
         vop' = [vop EXCEPT !.op = "scatter_store_masked", !.slice = output,
                            !.idx = a[1], !.mask = a[2],
                            !.ret = scatter_store_masked(vop.lanes, vop.self, output, a[1], a[2])]
    /\ UNCHANGED itervars

\* The vectors blended into self: no lane of them is a lane of self.
BlendVectors(S) == {[i \in 1..S |-> 0], Ramp(S, MaxLen)}

\* The vectors self is compared with: every lane below, at and above self's.
OtherVectors(S) == [1..S -> 0..(MaxLanes + 1)]

CmpOps == {"eq", "lt", "gt", "le", "ge"}

Blend ==
    /\ Fresh_vop
    /\ \E other \in BlendVectors(vop.lanes) :
       \E mask \in MasksOf(vop.lanes - 1) \cup MasksOf(vop.lanes) \cup MasksOf(vop.lanes + 1) :
         vop' = [vop EXCEPT !.op = "blend", !.other = other, !.mask = mask,
                            !.ret = blend(vop.lanes, vop.self, other, mask)]
    /\ UNCHANGED itervars

Compare ==
    /\ Fresh_vop
    /\ \E op \in CmpOps : \E other \in OtherVectors(vop.lanes) :
         vop' = [vop EXCEPT !.op = op, !.other = other,
                            !.ret = Returned(cmp_op(vop.lanes, op, vop.self, other))]
    /\ UNCHANGED itervars

Maximum ==
    /\ Fresh_vop
    /\ \E other \in OtherVectors(vop.lanes) :
         vop' = [vop EXCEPT !.op = "maximum", !.other = other,
                            !.ret = Returned(maximum(vop.lanes, vop.self, other))]
    /\ UNCHANGED itervars

Minimum ==
    /\ Fresh_vop
    /\ \E other \in OtherVectors(vop.lanes) :
         vop' = [vop EXCEPT !.op = "minimum", !.other = other,
                            !.ret = Returned(minimum(vop.lanes, vop.self, other))]
    /\ UNCHANGED itervars

\* The vectors reduced: of 1 to MaxTreeLanes lanes, lane i the leaf of i - 1.
TreeVectors == {[i \in 1..n |-> Leaf(i - 1)] : n \in 1..MaxTreeLanes}

HorizontalSum ==
    /\ Fresh_vop
    /\ \E self \in TreeVectors :
         vop' = [vop EXCEPT !.op = "horizontal_sum", !.lanes = Len(self), !.self = self,
                            !.ret = Returned(horizontal_sum(self))]
    /\ UNCHANGED itervars

HorizontalProduct ==
    /\ Fresh_vop
    /\ \E self \in TreeVectors :
         vop' = [vop EXCEPT !.op = "horizontal_product", !.lanes = Len(self), !.self = self,
                            !.ret = Returned(horizontal_product(self))]
    /\ UNCHANGED itervars

\* The operands of the operators: on the left lanes far from each other, on
\* the right every lane zero, one, a shift that fits, one that does not.
ArithVectors(S) ==
    {[i \in 1..S |-> (100 * i) % 2 ^ BaseBits], [i \in 1..S |-> 2 ^ BaseBits - i]}
RhsValues == {0, 1, 3, 2 ^ BaseBits - 56}
RhsVectors(S) == [1..S -> RhsValues]

\* x op y, for a base type, an operator it supports and a build with or
\* without overflow checks.
BinOp ==
    /\ Fresh_vop
    /\ \E base \in Bases : \E checks \in BOOLEAN : \E op \in BinOps :
         /\ Supported(base, op)
         /\ \E self \in ArithVectors(vop.lanes) : \E rhs \in RhsVectors(vop.lanes) :
              vop' = [vop EXCEPT !.op = op, !.base = base, !.checks = checks,
                                 !.self = self, !.other = rhs,
                                 !.ret = bin_op_impl(vop.lanes, base, checks, op, self, rhs)]
    /\ UNCHANGED itervars

\* The mask vectors safe code makes from nothing: of the constants TRUE and
\* FALSE or from_bool lane by lane, the default, and, for the native mask
\* type, the results of the comparisons.
MaskOps == {"bitand", "bitor", "bitxor"}
MadeMasks(S, ty) ==
    {[i \in 1..S |-> from_bool(ty, b[i])] : b \in [1..S -> BOOLEAN]}
    \cup {[i \in 1..S |-> Mask_default(ty)]}
    \cup (IF ty # NativeMask THEN {}
          ELSE {cmp_op(S, op, self, Ramp(S, 1)) : op \in CmpOps, self \in SelfVectors(S)})

\* A mask vector exists: the one the last call returned.
MaskLive == pc = "vector" /\ vop.base \in MaskTypes /\ vop.ret.ok

\* The mask vectors at hand for the right side of a call: a made one, and
\* the operand and the result of the last call.
MasksAtHand == MadeMasks(vop.lanes, vop.base) \cup {vop.ret.val} \cup
               (IF vop.self = <<>> THEN {} ELSE {vop.self})

MaskMake ==
    /\ Fresh_vop
    /\ \E ty \in MaskTypes : \E m \in MadeMasks(vop.lanes, ty) :
         vop' = [vop EXCEPT !.op = "make", !.base = ty, !.self = <<>>, !.ret = Returned(m)]
    /\ UNCHANGED itervars

\* !m and m op rhs, together with m op= rhs: the assigning forms leave in m
\* what the others return.
\* The record of a call on the mask vector the last call returned.
MaskCall(op, other, slice, idx, mask, ret) ==
    [VOp(op, vop.lanes, vop.ret.val, other, slice, idx, mask, ret) EXCEPT !.base = vop.base]

MaskNot ==
    /\ MaskLive
    /\ vop' = MaskCall("not", <<>>, <<>>, <<>>, <<>>,
                       Returned(una_op_impl(vop.lanes, vop.ret.val)))
    /\ UNCHANGED itervars

MaskBinOp ==
    /\ MaskLive
    /\ \E op \in MaskOps : \E rhs \in MasksAtHand :
         vop' = MaskCall(op, rhs, <<>>, <<>>, <<>>,
                         Returned(mask_bin_op(vop.lanes, op, vop.ret.val, rhs)))
    /\ UNCHANGED itervars

MaskBlend ==
    /\ MaskLive
    /\ \E other \in MasksAtHand : \E mask \in MadeMasks(vop.lanes, NativeMask) :
         vop' = MaskCall("blend", other, <<>>, <<>>, mask,
                         blend(vop.lanes, vop.ret.val, other, mask))
    /\ UNCHANGED itervars

MaskGather ==
    /\ MaskLive
    /\ \E idx \in [1..vop.lanes -> 0..(vop.lanes - 1)] :
         vop' = MaskCall("gather_load", <<>>, vop.ret.val, idx, <<>>,
                         gather_load(vop.lanes, vop.ret.val, idx))
    /\ UNCHANGED itervars

New ==
    /\ Fresh_vop
    /\ \E data \in VectorSlices :
         vop' = [vop EXCEPT !.op = "new", !.self = <<>>, !.slice = data,
                            !.ret = new(vop.lanes, data)]
    /\ UNCHANGED itervars

Store ==
    /\ Fresh_vop
    /\ \E output \in VectorSlices :
         vop' = [vop EXCEPT !.op = "store", !.slice = output,
                            !.ret = store(vop.lanes, vop.self, output)]
    /\ UNCHANGED itervars

\* The slices summed: of every length to MaxLen, of elements whose sum fits
\* the base and of elements whose sum does not.
SumSlices == {Ramp(n, 0) : n \in 0..MaxLen} \cup
             {[i \in 1..n |-> (90 * i) % 2 ^ BaseBits] : n \in 0..MaxLen}

PaddedSum ==
    /\ Fresh_vop
    /\ \E base \in Bases : \E checks \in BOOLEAN : \E data \in SumSlices :
         vop' = [vop EXCEPT !.op = "sum", !.base = base, !.checks = checks,
                            !.self = <<>>, !.slice = data,
                            !.ret = padded_sum(vop.lanes, base, checks, data)]
    /\ UNCHANGED itervars

NextVector ==
    \/ Gather
    \/ GatherMasked
    \/ Scatter
    \/ ScatterMasked
    \/ Blend
    \/ Compare
    \/ Maximum
    \/ Minimum
    \/ HorizontalSum
    \/ HorizontalProduct
    \/ BinOp
    \/ MaskMake
    \/ MaskNot
    \/ MaskBinOp
    \/ MaskBlend
    \/ MaskGather
    \/ New
    \/ Store
    \/ PaddedSum

SpecVector == InitVector /\ [][NextVector]_vars

\* =================================================================
\* Properties of the adapter
\* =================================================================

\* ------------------------------------------------ what the caller expects
\* The slice before the call cut into windows of Lanes elements: NumFull whole
\* windows, then Rest elements.
Lanes == input.lanes
NumFull == Len(orig) \div Lanes
Rest == Len(orig) % Lanes
ExpectedCount == NumFull + (IF Rest # 0 /\ padv # None THEN 1 ELSE 0)

\* The lanes of an item of a slice: the vector, or the proxy's vector.
LanesOf(item) == IF input.writable THEN item.data ELSE item

\* Window k of the original slice, and the padded tail, from the slice alone.
FullItem(k) == [i \in 1..Lanes |-> orig[Lanes * k + i]]
TailItem == [i \in 1..Lanes |-> IF i <= Rest THEN orig[Lanes * NumFull + i] ELSE padv[1][i]]

RECURSIVE Concat(_)
Concat(ss) == IF ss = <<>> THEN <<>> ELSE Head(ss) \o Concat(Tail(ss))

Reverse(s) == [k \in 1..Len(s) |-> s[Len(s) + 1 - k]]

\* next() repeated on the iterator i until it returns None (at most fuel
\* times): the items and the indexes they were asked with.
RECURSIVE DrainFront(_, _, _)
DrainFront(i, mem, fuel) ==
    IF fuel = 0 THEN <<>>
    ELSE LET r == next(i, mem)
         IN  IF r.ret = None THEN <<>>
             ELSE <<[item |-> r.ret[1], src |-> r.src]>> \o DrainFront(r.it, mem, fuel - 1)

\* next_back() repeated until it returns None.
RECURSIVE DrainBack(_, _, _)
DrainBack(i, mem, fuel) ==
    IF fuel = 0 THEN <<>>
    ELSE LET r == next_back(i, mem)
         IN  IF r.ret = None THEN <<>>
             ELSE <<[item |-> r.ret[1], src |-> r.src]>> \o DrainBack(r.it, mem, fuel - 1)

Fuel == MaxLen + 2
Forward == DrainFront(it, buf, Fuel)
Backward == DrainBack(it, buf, Fuel)

\* The iterator is as vectorize / vectorize_pad returned it.
Fresh == pc = "iter" /\ out = <<>> /\ ~skips

\* The caller has so far received what next() alone returns, from the start.
ForwardRun ==
    /\ ~skips
    /\ \A k \in 1..Len(out) : out[k].src = (IF k <= NumFull THEN Some(k - 1) ELSE None)

ReadSlice == IsSlice(input) /\ ~input.writable
WriteSlice == IsSlice(input) /\ input.writable

\* ------------------------------------------------------------------ C1
\* C1: a shared slice whose length is a multiple of the lane count, vectorized
\* with vectorize(), yields by repeated next() exactly len / N items, in
\* ascending order; item k holds the elements k*N .. k*N + N-1, and the items
\* concatenated are the slice.
C1_VectorizeYieldsWindows ==
    (pc = "iter" /\ ReadSlice /\ padv = None /\ Rest = 0) =>
        /\ Fresh =>
             /\ Len(Forward) = Len(orig) \div Lanes
             /\ \A k \in 1..Len(Forward) :
                  Forward[k].src = Some(k - 1) /\ Forward[k].item = FullItem(k - 1)
             /\ Concat([k \in 1..Len(Forward) |-> Forward[k].item]) = orig
        /\ \A k \in 1..Len(out) :
             out[k].src # None /\ out[k].item = FullItem(out[k].src[1])
        /\ (ForwardRun /\ next(it, buf).ret = None) =>
             /\ Len(out) = Len(orig) \div Lanes
             /\ Concat([k \in 1..Len(out) |-> out[k].item]) = orig

\* Two or more vectors were read by next() alone, to the end.
C1_Witness ==
    /\ pc = "iter" /\ ReadSlice /\ padv = None
    /\ ForwardRun
    /\ Len(out) >= 2
    /\ next(it, buf).ret = None

\* ------------------------------------------------------------------ C2
\* C2: a shared slice vectorized with vectorize_pad(pad) yields floor(len / N)
\* full items and then, exactly when len % N # 0, one more item whose first
\* len % N lanes are the tail of the slice and whose other lanes are pad's
\* lanes at the same positions; no padding item when len % N = 0.
C2_VectorizePadTail ==
    (pc = "iter" /\ ReadSlice /\ padv # None) =>
        /\ Fresh =>
             /\ Len(Forward) = NumFull + (IF Rest # 0 THEN 1 ELSE 0)
             /\ \A k \in 1..Len(Forward) :
                  IF k <= NumFull
                  THEN Forward[k].src = Some(k - 1) /\ Forward[k].item = FullItem(k - 1)
                  ELSE Forward[k].src = None /\ Forward[k].item = TailItem
        /\ \A k \in 1..Len(out) :
             IF out[k].src = None THEN Rest # 0 /\ out[k].item = TailItem
             ELSE out[k].item = FullItem(out[k].src[1])
        /\ (ForwardRun /\ next(it, buf).ret = None) =>
             Len(out) = NumFull + (IF Rest # 0 THEN 1 ELSE 0)

\* next() alone read a full vector and then the padded tail.
C2_Witness ==
    /\ pc = "iter" /\ ReadSlice /\ padv # None
    /\ Rest # 0 /\ NumFull >= 1
    /\ ForwardRun
    /\ Len(out) = NumFull + 1
    /\ out[Len(out)].item # padv[1]

\* ------------------------------------------------------------------ C3
\* C3: a mutable slice: once the iterator has handed out every item, the
\* caller has assigned f(*proxy) to every proxy and every proxy is dropped,
\* element i of the slice is f of the original element i, the elements of a
\* partial tail included.
AllHandedOut == Len(out) = ExpectedCount /\ next(it, buf).ret = None

C3_MapInPlace ==
    (/\ WriteSlice /\ pc \in {"iter", "done"}
     /\ AllHandedOut
     /\ \A k \in 1..Len(proxies) : proxies[k].st = "dropped" /\ proxies[k].nassign = 1) =>
        buf = [i \in 1..Len(orig) |-> fn[orig[i]]]

\* A slice with a full window and a partial tail was mapped in place.
C3_Witness ==
    /\ WriteSlice /\ pc = "iter"
    /\ Rest # 0 /\ NumFull >= 1
    /\ AllHandedOut
    /\ \A k \in 1..Len(proxies) : proxies[k].st = "dropped" /\ proxies[k].nassign = 1
    /\ \A i \in 1..Len(orig) : buf[i] # orig[i]

\* ------------------------------------------------------------------ C4
\* The elements of the slice a proxy restores, as they are in s.
Restored(p, s) == Window(s, p.start, p.len)

\* The proxy k is dropped by this step.
Dropping(k) == proxies[k].st = "live" /\ proxies'[k].st = "dropped"

C4_Step ==
    /\ buf' # buf => \E k \in 1..Len(proxies) : Dropping(k)
    /\ \A k \in 1..Len(proxies) :
         Dropping(k) =>
            /\ Restored(proxies[k].item, buf') = Window(proxies[k].item.data, 0, proxies[k].item.len)
            /\ \A i \in 1..Len(buf) :
                 (i <= proxies[k].item.start \/ i > proxies[k].item.start + proxies[k].item.len)
                    => buf'[i] = buf[i]

C4_Untouched ==
    \A k \in 1..Len(proxies) :
        proxies[k].st \in {"live", "leaked"} =>
            Restored(proxies[k].item, buf) = Restored(proxies[k].item, orig)

\* C4: the backing slice changes only when a proxy is dropped: an assignment
\* through a proxy leaves the slice as it was, the drop makes the proxy's
\* window equal to the proxy's lanes, and the window of a proxy that is never
\* dropped keeps its original values.
C4_WriteBackOnDrop == [][C4_Step]_vars /\ []C4_Untouched

\* One modified proxy was dropped and is in the slice; another was modified
\* and leaked, and its window is as it was.
C4_Witness ==
    /\ WriteSlice
    /\ \E j, k \in 1..Len(proxies) :
         /\ proxies[j].st = "dropped" /\ proxies[j].nassign = 1
         /\ Restored(proxies[j].item, buf) # Restored(proxies[j].item, orig)
         /\ proxies[k].st = "leaked" /\ proxies[k].nassign = 1
         /\ proxies[k].item.data # out[k].item.data

\* ------------------------------------------------------------------ C5
\* The proxies that exist: those handed out and the tail still in the iterator.
Existing ==
    [k \in 1..Len(proxies) |-> proxies[k].item] \o (IF pc = "iter" THEN it.partial ELSE <<>>)

Disjoint(p, q) == p.start + p.len <= q.start \/ q.start + q.len <= p.start

\* C5: whatever sequence of next, next_back, nth and last is called on the
\* iterator over a mutable slice, every index asked of the vectorizer is a
\* full-window index in [0, len / N), no index is asked twice, and the windows
\* of the proxies, the tail's included, are pairwise disjoint.
C5_EachWindowOnce ==
    IsSlice(input) =>
        /\ pc # "ub"
        /\ \A k \in 1..Len(out) :
             out[k].src # None => out[k].src[1] \in 0..(NumFull - 1)
        /\ \A j, k \in 1..Len(out) : j < k => out[j].src # out[k].src
        /\ input.writable =>
             /\ \A k \in 1..Len(Existing) :
                  Existing[k].start >= 0 /\ Existing[k].start + Existing[k].len <= Len(orig)
             /\ \A j, k \in 1..Len(Existing) : j < k => Disjoint(Existing[j], Existing[k])

\* Three proxies are alive at once: the tail, taken from the back, then the
\* first and the second window.
C5_Witness ==
    /\ WriteSlice
    /\ Len(proxies) = 3
    /\ \A k \in 1..3 : proxies[k].st = "live"
    /\ out[1].src = None /\ out[2].src = Some(0) /\ out[3].src = Some(1)

\* ------------------------------------------------------------------ C6
\* C6: size_hint() is (k, Some(k)) where k is the number of items repeated
\* next() would still yield, count() returns that k, and once k is 0 next()
\* and next_back() return None and leave the iterator as it is.
C6_ExactSize ==
    /\ pc = "iter" =>
         LET k == Len(Forward)
         IN  /\ size_hint(it) = <<k, Some(k)>>
             /\ count(it) = k
             /\ k = 0 =>
                  /\ next(it, buf).ret = None /\ next(it, buf).it = it
                  /\ next_back(it, buf).ret = None /\ next_back(it, buf).it = it
    /\ call.op = "count" => call.cnt = Len(Forward)

\* count() was called with a full window and the tail left, after one item.
C6_Witness ==
    /\ call.op = "count" /\ call.cnt = 2
    /\ Len(out) = 1
    /\ it.partial # None

\* ------------------------------------------------------------------ C7
\* next() called n times (n >= 1) on the iterator i, every item but the last
\* dropped as soon as it is returned: the iterator and the memory afterwards
\* and the last call's return value.
RECURSIVE NextTimes(_, _, _)
NextTimes(i, mem, n) ==
    LET r == next(i, mem)
    IN  IF n <= 1 THEN [it |-> r.it, ret |-> r.ret, mem |-> mem]
        ELSE NextTimes(r.it, drop_option(input, r.ret, mem), n - 1)

\* C7: nth(n) returns what the last of n + 1 calls of next() returns and leaves
\* the iterator in the same state and the slice with the same contents, the
\* skipped items having been dropped unmodified.
C7_NthIsRepeatedNext ==
    pc = "iter" =>
        \A n \in 0..MaxNth :
            LET a == nth(it, buf, n)
                b == NextTimes(it, buf, n + 1)
            IN  /\ a.ret = b.ret
                /\ a.it = b.it
                /\ drop_option(input, a.dropped, buf) = b.mem

\* nth(1) skipped window 0 of a mutable slice and returned window 1, with
\* more left in the iterator.
C7_Witness ==
    /\ pc = "iter" /\ WriteSlice /\ skips
    /\ Len(out) = 1 /\ out[1].src = Some(1)
    /\ it.left = 2
    /\ size_hint(it)[1] >= 1

\* ------------------------------------------------------------------ C8
\* The lanes the item asked with src is expected to hold.
ExpectedLanes(src) == IF src = None THEN TailItem ELSE FullItem(src[1])

\* The indexes of the items in back-to-front order: the tail, if any, then the
\* full windows descending.
BackOrder ==
    [k \in 1..ExpectedCount |->
        IF ExpectedCount > NumFull
        THEN (IF k = 1 THEN None ELSE Some(NumFull + 1 - k))
        ELSE Some(NumFull - k)]

\* The items handed out followed by those next() would still yield.
Everything == [k \in 1..Len(out) |-> out[k]] \o Forward

\* C8: from the back the padding item comes first and the full items follow in
\* descending order; the items of repeated next_back() are those of repeated
\* next() reversed; last() returns the final item of forward iteration; under
\* any interleaving of next() and next_back() every item is yielded exactly
\* once.
C8_DoubleEnded ==
    pc = "iter" =>
        /\ Backward = Reverse(Forward)
        /\ last(it, buf).ret =
              (IF Forward = <<>> THEN None ELSE Some(Forward[Len(Forward)].item))
        /\ Fresh => [k \in 1..Len(Backward) |-> Backward[k].src] = BackOrder
        /\ ~skips =>
             /\ Len(Everything) = ExpectedCount
             /\ \A j, k \in 1..Len(Everything) : j < k => Everything[j].src # Everything[k].src
             /\ \A k \in 1..Len(Everything) :
                  LanesOf(Everything[k].item) = ExpectedLanes(Everything[k].src)

\* next_back() alone returned the tail, then window 1, then window 0.
C8_Witness ==
    /\ pc = "iter" /\ ~skips
    /\ Len(out) = 3
    /\ out[1].src = None /\ out[2].src = Some(1) /\ out[3].src = Some(0)
    /\ LanesOf(out[1].item) = TailItem
    /\ Forward = <<>>

\* ------------------------------------------------------------------ C9
\* The constituents of the input: the slice itself, or the tuple's or array's.
Parts == IF IsSlice(input) THEN {0} ELSE 1..Len(input.parts)
LanesAt(k) == IF IsSlice(input) THEN input.lanes ELSE input.parts[k].lanes
OrigAt(k) == IF IsSlice(input) THEN orig ELSE orig[k]
FullOf(k) == Len(OrigAt(k)) \div LanesAt(k)
NeedsTail(k) == Len(OrigAt(k)) % LanesAt(k) # 0

\* C9: vectorize() on a slice whose length is not a multiple of the lane count
\* fails without yielding an item and leaves a mutable slice as it was; so it
\* does on a tuple or an array with such a constituent.
C9_VectorizeNeedsDivisible ==
    (pc # "new" /\ padv = None /\ \E k \in Parts : NeedsTail(k)) =>
        /\ pc = "failed"
        /\ out = <<>> /\ proxies = <<>>
        /\ buf = orig

\* vectorize() failed on a tuple of a mutable slice of whole windows and a
\* slice with a remainder.
C9_Witness ==
    /\ pc = "failed" /\ padv = None
    /\ input.kind = "tuple"
    /\ input.parts[1].writable
    /\ ~NeedsTail(1) /\ FullOf(1) >= 1
    /\ NeedsTail(2)

\* ----------------------------------------------------------------- C10
\* The constituents differ in the number of full items or in whether a tail
\* item is needed.
Disagree == \E j, k \in Parts : FullOf(j) # FullOf(k) \/ NeedsTail(j) # NeedsTail(k)

\* C10: vectorize and vectorize_pad on a tuple or an array fail when the
\* constituents produce different numbers of full items or disagree on
\* whether a tail item is needed, and no element of a mutable constituent is
\* modified by the failure; constituents of different lengths are accepted
\* when they produce the same number of vectors.
C10_CompositeAgreement ==
    (~IsSlice(input) /\ pc # "new") =>
        /\ Disagree => pc = "failed" /\ out = <<>>
        /\ pc = "failed" => buf = orig
        /\ (~Disagree /\ (padv = None => \A k \in Parts : ~NeedsTail(k))) =>
              /\ pc # "failed"
              /\ (pc = "iter" /\ out = <<>>) => size_hint(it)[1] = FullOf(1) + (IF NeedsTail(1) THEN 1 ELSE 0)

\* vectorize_pad failed on a tuple whose mutable first constituent has a full
\* window and a tail, the second one the full window only.
C10_Witness ==
    /\ pc = "failed" /\ padv # None
    /\ input.kind = "tuple"
    /\ input.parts[1].writable
    /\ FullOf(1) = FullOf(2) /\ FullOf(1) >= 1
    /\ NeedsTail(1) /\ ~NeedsTail(2)

\* ----------------------------------------------------------------- C11
\* The constituents are vectorized into the same vector type and their
\* lengths are not all the same.
SameVectorType == \A j, k \in Parts : LanesAt(j) = LanesAt(k)
LengthsDiffer == \E j, k \in Parts : Len(OrigAt(j)) # Len(OrigAt(k))
PaddedSameType ==
    ~IsSlice(input) /\ pc # "new" /\ padv # None /\ SameVectorType /\ LengthsDiffer

\* The lanes of constituent k's item, and the tail item expected of it: its
\* remainder followed by its own pad's lanes.
PartLanes(k, item) == IF input.parts[k].writable THEN item[k].data ELSE item[k]
TailOf(k) ==
    [i \in 1..LanesAt(k) |->
        IF i <= Len(OrigAt(k)) % LanesAt(k)
        THEN OrigAt(k)[FullOf(k) * LanesAt(k) + i] ELSE padv[1][k][i]]

\* The claim as it is stated: vectorize_pad on a composite of one vector type
\* fails, without effect, whenever the constituents' lengths disagree.
C11_AnyLengthDifferenceFails ==
    PaddedSameType => (pc = "failed" /\ out = <<>> /\ buf = orig)

\* C11 (as the code has it): vectorize_pad on a composite of one vector type
\* whose constituents' lengths disagree fails, before any effect, exactly
\* when the constituents differ in the number of full vectors or in whether a
\* tail is left; lengths that differ only inside the last, partial window are
\* accepted, and every constituent's tail is padded from its own pad.
C11_PadFailsOnShapeOnly ==
    PaddedSameType =>
        /\ (pc = "failed") = Disagree
        /\ pc = "failed" => (out = <<>> /\ proxies = <<>> /\ buf = orig)
        /\ (pc = "iter" /\ out = <<>>) =>
             /\ it.right = FullOf(1)
             /\ it.partial # None
             /\ \A k \in Parts : PartLanes(k, it.partial[1]) = TailOf(k)

\* A tuple of a mutable and a shared slice of different lengths, one vector
\* type, was accepted by vectorize_pad and its tail item handed out.
C11_Witness ==
    /\ PaddedSameType /\ pc = "iter"
    /\ input.kind = "tuple" /\ input.parts[1].writable
    /\ FullOf(1) >= 1
    /\ Len(out) >= 1 /\ out[Len(out)].src = None
    /\ \A k \in Parts : PartLanes(k, out[Len(out)].item) = TailOf(k)

\* =================================================================
\* Properties of the vectors
\* =================================================================

Called(op) == pc = "vector" /\ vop.op = op

\* ----------------------------------------------------------------- C12
\* C12: gather_load with idx of length N and every index < len(input) returns
\* the vector whose lane i is input[idx[i]], whether or not indexes repeat or
\* are in order; with idx of another length, or with an index >= len(input),
\* it fails.
C12_Gather ==
    Called("gather_load") =>
        LET valid == /\ Len(vop.idx) = vop.lanes
                     /\ \A i \in 1..Len(vop.idx) : vop.idx[i] < Len(vop.slice)
        IN  /\ valid =>
                 /\ vop.ret.ok
                 /\ Len(vop.ret.val) = vop.lanes
                 /\ \A i \in 1..vop.lanes : vop.ret.val[i] = vop.slice[vop.idx[i] + 1]
            /\ ~valid => ~vop.ret.ok

\* A gather with a repeated index and indexes out of order returned.
C12_Witness ==
    /\ Called("gather_load") /\ vop.ret.ok
    /\ vop.lanes = 3
    /\ vop.idx[1] > vop.idx[2] /\ vop.idx[2] = vop.idx[3]
    /\ vop.ret.val[1] # vop.ret.val[2]

\* ----------------------------------------------------------------- C13
\* The lane i of the mask container of the call is the true value of its type.
Enabled(i) == vop.mask[i] = Mask_TRUE(vop.mask[i].ty)

\* C13: gather_load_masked returns the vector whose lane i is input[idx[i]]
\* where mask[i] is true and self[i] where it is false; it fails when idx or
\* mask has a length other than N or an enabled lane's index is out of range;
\* an out-of-range index on a disabled lane does not make it fail.
C13_GatherMasked ==
    Called("gather_load_masked") =>
        LET sized == Len(vop.idx) = vop.lanes /\ Len(vop.mask) = vop.lanes
            valid == sized /\ \A i \in 1..vop.lanes :
                                 Enabled(i) => vop.idx[i] < Len(vop.slice)
        IN  /\ valid =>
                 /\ vop.ret.ok
                 /\ Len(vop.ret.val) = vop.lanes
                 /\ \A i \in 1..vop.lanes :
                      vop.ret.val[i] = (IF Enabled(i) THEN vop.slice[vop.idx[i] + 1]
                                        ELSE vop.self[i])
            /\ ~valid => ~vop.ret.ok

\* A masked gather returned with an enabled lane loaded and a disabled lane
\* whose index is out of range.
C13_Witness ==
    /\ Called("gather_load_masked") /\ vop.ret.ok
    /\ \E i, j \in 1..vop.lanes :
         /\ Enabled(i) /\ vop.ret.val[i] # vop.self[i]
         /\ ~Enabled(j) /\ vop.idx[j] >= Len(vop.slice) /\ vop.ret.val[j] = vop.self[j]

\* ----------------------------------------------------------------- C14
\* The lanes of the call that name the element k (1-based) of the output.
Naming(k) == {i \in 1..Len(vop.idx) : vop.idx[i] = k - 1}

\* C14: after a scatter_store that returned, every element of the output that
\* no idx[i] names is as it was, and every element that is named holds the
\* lane of self of one of the lanes naming it.
C14_ScatterFrame ==
    (Called("scatter_store") /\ vop.ret.ok) =>
        /\ Len(vop.ret.val) = Len(vop.slice)
        /\ \A k \in 1..Len(vop.slice) :
             IF Naming(k) = {} THEN vop.ret.val[k] = vop.slice[k]
             ELSE \E i \in Naming(k) : vop.ret.val[k] = vop.self[i]

\* A scatter returned where two lanes name one element and an element is
\* named by none.
C14_Witness ==
    /\ Called("scatter_store") /\ vop.ret.ok
    /\ vop.idx[1] = vop.idx[2]
    /\ \E k \in 1..Len(vop.slice) : Naming(k) = {}
    /\ \E k \in 1..Len(vop.slice) : Naming(k) # {} /\ vop.ret.val[k] # vop.slice[k]

\* ----------------------------------------------------------------- C15
\* The precondition of the two stores: the containers have N lanes and every
\* index that is checked (of every lane, or of the enabled lanes) is in range.
StoreChecked(i) == IF vop.op = "scatter_store_masked" THEN Enabled(i) ELSE TRUE
StorePrecondition ==
    /\ Len(vop.idx) = vop.lanes
    /\ vop.op = "scatter_store_masked" => Len(vop.mask) = vop.lanes
    /\ \A i \in 1..vop.lanes : StoreChecked(i) => vop.idx[i] < Len(vop.slice)

\* C15: a scatter_store or scatter_store_masked whose precondition does not
\* hold fails and has modified no element of the output, even when lanes
\* before the offending one name valid indexes.
C15_ScatterAllOrNothing ==
    (Called("scatter_store") \/ Called("scatter_store_masked")) =>
        /\ ~StorePrecondition => ~vop.ret.ok
        /\ ~vop.ret.ok => vop.ret.val = vop.slice

\* A scatter failed on its last index with a valid index in its first lane.
C15_Witness ==
    /\ Called("scatter_store") /\ ~vop.ret.ok
    /\ Len(vop.idx) = vop.lanes
    /\ vop.idx[1] < Len(vop.slice)
    /\ vop.idx[vop.lanes] >= Len(vop.slice)
    /\ vop.ret.val = vop.slice

\* ----------------------------------------------------------------- C16
\* The enabled lanes of the call that name the element k of the output.
NamingEnabled(k) == {i \in Naming(k) : Enabled(i)}

\* C16: scatter_store_masked writes self[i] to output[idx[i]] for the lanes
\* whose mask is true and leaves every other element of the output as it
\* was; an out-of-range index in a disabled lane neither fails nor writes,
\* and an out-of-range index in an enabled lane fails.
C16_ScatterMasked ==
    Called("scatter_store_masked") =>
        /\ StorePrecondition = vop.ret.ok
        /\ vop.ret.ok =>
             /\ Len(vop.ret.val) = Len(vop.slice)
             /\ \A k \in 1..Len(vop.slice) :
                  IF NamingEnabled(k) = {} THEN vop.ret.val[k] = vop.slice[k]
                  ELSE \E i \in NamingEnabled(k) : vop.ret.val[k] = vop.self[i]

\* A masked scatter returned: an enabled lane was stored, a disabled lane
\* names an element that is as it was, another disabled lane is out of range.
C16_Witness ==
    /\ Called("scatter_store_masked") /\ vop.ret.ok
    /\ \E i, j, l \in 1..vop.lanes :
         /\ Enabled(i) /\ vop.ret.val[vop.idx[i] + 1] = vop.self[i]
         /\ ~Enabled(j) /\ vop.idx[j] < Len(vop.slice)
         /\ vop.ret.val[vop.idx[j] + 1] = vop.slice[vop.idx[j] + 1]
         /\ ~Enabled(l) /\ vop.idx[l] >= Len(vop.slice)

\* ----------------------------------------------------------------- C17
\* The mask container of the call in the other mask type, lane by lane the
\* same truth values.
OtherType(ty) == IF ty = "bool" THEN "m8" ELSE "bool"
Counterpart(mask) ==
    [i \in 1..Len(mask) |->
        IF mask[i].bits = 0 THEN Mask_FALSE(OtherType(mask[i].ty))
        ELSE Mask_TRUE(OtherType(mask[i].ty))]

\* C17: for a mask container m of N lanes, a.blend(b, m) has lane i equal to
\* b[i] where m[i] is true and to a[i] where it is false; a native mask vector
\* and a bool array of the same truth values give the same vector.
C17_Blend ==
    (Called("blend") /\ Len(vop.mask) = vop.lanes) =>
        /\ vop.ret.ok
        /\ Len(vop.ret.val) = vop.lanes
        /\ \A i \in 1..vop.lanes :
             vop.ret.val[i] = (IF Enabled(i) THEN vop.other[i] ELSE vop.self[i])
        /\ blend(vop.lanes, vop.self, vop.other, Counterpart(vop.mask)) = vop.ret

\* A blend under a native mask took a lane from each vector.
C17_Witness ==
    /\ Called("blend") /\ Len(vop.mask) = vop.lanes /\ vop.ret.ok
    /\ vop.mask[1].ty = "m8"
    /\ \E i, j \in 1..vop.lanes :
         /\ Enabled(i) /\ vop.ret.val[i] = vop.other[i] /\ vop.other[i] # vop.self[i]
         /\ ~Enabled(j) /\ vop.ret.val[j] = vop.self[j] /\ vop.other[j] # vop.self[j]

\* ----------------------------------------------------------------- C18
\* The scalar comparison the method named op stands for holds on lane i.
Holds(op, i) ==
    \/ op = "eq" /\ vop.self[i] = vop.other[i]
    \/ op = "lt" /\ vop.self[i] < vop.other[i]
    \/ op = "gt" /\ vop.self[i] > vop.other[i]
    \/ op = "le" /\ ~(vop.self[i] > vop.other[i])
    \/ op = "ge" /\ ~(vop.self[i] < vop.other[i])

\* C18: eq, lt, le, gt and ge return a mask vector of N lanes of the native
\* mask type whose lane i is TRUE, all bits one, if the scalar comparison
\* holds on lane i, and FALSE, all bits zero, if it does not; no lane holds
\* another bit pattern.
C18_Compare ==
    (pc = "vector" /\ vop.op \in CmpOps) =>
        /\ Len(vop.ret.val) = vop.lanes
        /\ \A i \in 1..vop.lanes :
             /\ vop.ret.val[i].ty = NativeMask
             /\ vop.ret.val[i].bits = (IF Holds(vop.op, i) THEN 2 ^ MaskBits - 1 ELSE 0)

\* le returned a mask with a lane below, a lane equal and a lane above.
C18_Witness ==
    /\ Called("le")
    /\ \E i, j, k \in 1..vop.lanes :
         /\ vop.self[i] < vop.other[i] /\ vop.ret.val[i] = Mask_TRUE(NativeMask)
         /\ vop.self[j] = vop.other[j] /\ vop.ret.val[j] = Mask_TRUE(NativeMask)
         /\ vop.self[k] > vop.other[k] /\ vop.ret.val[k] = Mask_FALSE(NativeMask)

\* ----------------------------------------------------------------- C19
AllTrue(m) == \A i \in 1..Len(m) : m[i] = Mask_TRUE(NativeMask)

\* C19: over a totally ordered base, a.maximum(b) and a.minimum(b) are the
\* lane-wise maximum and minimum; both are commutative, and
\* a.maximum(b).ge(a.minimum(b)) has every lane TRUE.
C19_MinMax ==
    (pc = "vector" /\ vop.op \in {"maximum", "minimum"}) =>
        LET S == vop.lanes
            a == vop.self
            b == vop.other
        IN  /\ Len(vop.ret.val) = S
            /\ \A i \in 1..S :
                 vop.ret.val[i] =
                    (IF vop.op = "maximum"
                     THEN (IF a[i] >= b[i] THEN a[i] ELSE b[i])
                     ELSE (IF a[i] <= b[i] THEN a[i] ELSE b[i]))
            /\ maximum(S, a, b) = maximum(S, b, a)
            /\ minimum(S, a, b) = minimum(S, b, a)
            /\ AllTrue(ge(S, maximum(S, a, b), minimum(S, a, b)))

\* minimum took a lane of self, a lane of other, and a lane equal in both.
C19_Witness ==
    /\ Called("minimum")
    /\ \E i, j, k \in 1..vop.lanes :
         /\ vop.self[i] < vop.other[i] /\ vop.ret.val[i] = vop.self[i]
         /\ vop.self[j] > vop.other[j] /\ vop.ret.val[j] = vop.other[j]
         /\ vop.self[k] = vop.other[k] /\ vop.ret.val[k] = vop.self[k]

\* ----------------------------------------------------------------- C20
IsLeaf(t) == Len(t) = 1

\* The lanes in an expression, left to right.
RECURSIVE Leaves(_)
Leaves(t) == IF IsLeaf(t) THEN <<t>> ELSE Leaves(t[2]) \o Leaves(t[3])

\* Every node of the expression is the operator sym over a left operand of
\* floor(n / 2) of its n lanes.
RECURSIVE SplitAtHalf(_, _)
SplitAtHalf(t, sym) ==
    IsLeaf(t) \/
        /\ t[1] = sym
        /\ Len(Leaves(t[2])) = Len(Leaves(t)) \div 2
        /\ SplitAtHalf(t[2], sym) /\ SplitAtHalf(t[3], sym)

\* Every right operand of the expression is a single lane.
RECURSIVE IsLeftFold(_)
IsLeftFold(t) == IsLeaf(t) \/ (IsLeaf(t[3]) /\ IsLeftFold(t[2]))

Symbol == IF vop.op = "horizontal_sum" THEN "+" ELSE "*"

\* C20: horizontal_sum and horizontal_product combine the lanes as a balanced
\* binary tree: the lanes are split at floor(N / 2), each half is reduced the
\* same way and the two results are combined; N = 4 gives (a0+a1)+(a2+a3),
\* N = 3 gives a0+(a1+a2); every lane is used exactly once, and for N >= 4
\* the reduction is not a left fold.
C20_TreeReduction ==
    (pc = "vector" /\ vop.op \in {"horizontal_sum", "horizontal_product"}) =>
        LET t == vop.ret.val
            a == vop.self
        IN  /\ Leaves(t) = a
            /\ SplitAtHalf(t, Symbol)
            /\ vop.lanes = 3 => t = <<Symbol, a[1], <<Symbol, a[2], a[3]>>>>
            /\ vop.lanes = 4 => t = <<Symbol, <<Symbol, a[1], a[2]>>, <<Symbol, a[3], a[4]>>>>
            /\ vop.lanes >= 4 => ~IsLeftFold(t)

\* The sum of four lanes and more was taken.
C20_Witness ==
    /\ Called("horizontal_sum")
    /\ vop.lanes >= 4
    /\ ~IsLeaf(vop.ret.val[2]) /\ ~IsLeaf(vop.ret.val[3])

\* ----------------------------------------------------------------- C21
Arithmetic == pc = "vector" /\ vop.op \in BinOps /\ vop.base \in Bases

\* The scalar x op y of the integers, before it is kept to the base's width.
Exact(op, a, b) ==
    IF op = "add" THEN a + b
    ELSE IF op = "sub" THEN a - b
    ELSE IF op = "mul" THEN a * b
    ELSE IF op = "div" THEN a \div b
    ELSE IF op = "rem" THEN a % b
    ELSE IF op = "shl" THEN a * 2 ^ b
    ELSE IF op = "shr" THEN a \div 2 ^ b
    ELSE bitwise(op, a, b, BaseBits)

\* The vectors differing from v in lanes other than lane i, one at a time.
OtherLanesChanged(v, i, values) ==
    {[v EXCEPT ![j] = x] : j \in DOMAIN v \ {i}, x \in values}

\* C21: for every binary operator the base type supports, lane i of x op y
\* is the scalar x[i] op y[i] of the base type (modulo 2^width where the
\* base wraps), and it depends on no other lane of x and y.
C21_LaneWise ==
    (Arithmetic /\ vop.ret.ok) =>
        \A i \in 1..vop.lanes :
            LET a == vop.self[i]
                b == vop.other[i]
                r == vop.ret.val[i]
            IN  /\ r = scalar_op(vop.base, vop.checks, vop.op, a, b).val
                /\ r \in 0..(2 ^ BaseBits - 1)
                /\ vop.op \in {"add", "sub", "mul"} => r = Exact(vop.op, a, b) % 2 ^ BaseBits
                /\ (vop.op \in {"shl", "shr"} /\ b < BaseBits) =>
                       r = Exact(vop.op, a, b) % 2 ^ BaseBits
                /\ vop.op \notin {"add", "sub", "mul", "shl", "shr"} => r = Exact(vop.op, a, b)
                /\ \A x \in OtherLanesChanged(vop.self, i, {a}) \cup {vop.self} :
                   \A y \in OtherLanesChanged(vop.other, i, RhsValues) :
                      LET again == bin_op_impl(vop.lanes, vop.base, vop.checks, vop.op, x, y)
                      IN  again.ok => again.val[i] = r

\* A wrapping multiplication that wrapped in one lane and not in another.
C21_Witness ==
    /\ Arithmetic /\ vop.ret.ok
    /\ vop.op = "mul" /\ vop.base = "Wrapping<u8>"
    /\ \E i, j \in 1..vop.lanes :
         /\ vop.self[i] * vop.other[i] >= 2 ^ BaseBits
         /\ vop.other[j] = 1 /\ vop.other[i] # 1
         /\ vop.ret.val[j] = vop.self[j]

\* ----------------------------------------------------------------- C22
\* The scalar operator of the base type fails on lane i.
ScalarFails(i) ==
    \/ vop.op \in {"div", "rem"} /\ vop.other[i] = 0
    \/ /\ vop.base = "u8" /\ vop.checks
       /\ \/ vop.op \in {"add", "mul"}
             /\ Exact(vop.op, vop.self[i], vop.other[i]) >= 2 ^ BaseBits
          \/ vop.op = "sub" /\ vop.self[i] < vop.other[i]
          \/ vop.op \in {"shl", "shr"} /\ vop.other[i] >= BaseBits

\* C22 as claimed: every lane-wise arithmetic operator, division and
\* remainder included, returns a result vector and never fails.
C22_ArithmeticNeverFails == Arithmetic => vop.ret.ok

\* C22: a lane-wise arithmetic operator fails exactly when the scalar
\* operator of the base type fails on some lane, and returns a result vector
\* otherwise.
C22_FailsAsTheBaseType ==
    Arithmetic => (vop.ret.ok <=> \A i \in 1..vop.lanes : ~ScalarFails(i))

\* A division of wrapping lanes by a vector with a zero lane panicked.
C22_Witness ==
    /\ Arithmetic /\ ~vop.ret.ok
    /\ vop.op = "div" /\ vop.base = "Wrapping<u8>"
    /\ \E i, j \in 1..vop.lanes : vop.other[i] = 0 /\ vop.other[j] # 0

\* ----------------------------------------------------------------- C23
Legal(m) == m \in {Mask_TRUE(m.ty), Mask_FALSE(m.ty)}

\* What the operator called makes of the bool() of its operands.
Boolean(op, x, y) ==
    IF op = "not" THEN ~x
    ELSE IF op = "bitand" THEN x /\ y
    ELSE IF op = "bitor" THEN x \/ y
    ELSE (x # y)

\* C23: every mask the public operations give (the constants, from_bool,
\* default, the comparisons, !, &, |, ^ and their assigning forms, blend and
\* gather on mask vectors) is all ones or all zeros; of such a mask m,
\* !!m = m and m.bool() = (m = TRUE), and !, &, |, ^ agree with not, and,
\* or and xor of the bool() of their operands.
C23_LegalMasks ==
    MaskLive =>
        \A i \in 1..vop.lanes :
            LET m == vop.ret.val[i]
            IN  /\ Legal(m)
                /\ not(not(m)) = m
                /\ bool(m) = (m = Mask_TRUE(vop.base))
                /\ vop.op = "not" => bool(m) = Boolean("not", bool(vop.self[i]), FALSE)
                /\ vop.op \in MaskOps =>
                      bool(m) = Boolean(vop.op, bool(vop.self[i]), bool(vop.other[i]))

\* A native mask vector with a TRUE and a FALSE lane was negated, and the
\* result combined with a mask that differs from it.
C23_Witness ==
    /\ MaskLive /\ vop.base = NativeMask /\ vop.op = "bitxor"
    /\ \E i, j \in 1..vop.lanes :
         /\ vop.self[i] = Mask_TRUE(NativeMask) /\ vop.self[j] = Mask_FALSE(NativeMask)
         /\ vop.other[i] = Mask_TRUE(NativeMask) /\ vop.other[j] = Mask_TRUE(NativeMask)
         /\ vop.ret.val[i] = Mask_FALSE(NativeMask) /\ vop.ret.val[j] = Mask_TRUE(NativeMask)

\* ----------------------------------------------------------------- C24
\* C24: new(input) fails when len(input) # N and otherwise returns the vector
\* whose lane i is input[i]; store(output) fails when len(output) # N and
\* leaves output as it was, and otherwise makes output[i] lane i for every i.
C24_NewAndStore ==
    /\ Called("new") =>
          IF Len(vop.slice) # vop.lanes THEN ~vop.ret.ok
          ELSE /\ vop.ret.ok
               /\ Len(vop.ret.val) = vop.lanes
               /\ \A i \in 1..vop.lanes : vop.ret.val[i] = vop.slice[i]
    /\ Called("store") =>
          IF Len(vop.slice) # vop.lanes THEN ~vop.ret.ok /\ vop.ret.val = vop.slice
          ELSE /\ vop.ret.ok
               /\ Len(vop.ret.val) = vop.lanes
               /\ \A i \in 1..vop.lanes : vop.ret.val[i] = vop.self[i]

\* new was given a slice one element longer than the vector.
C24_Witness ==
    /\ Called("new")
    /\ Len(vop.slice) = vop.lanes + 1
    /\ ~vop.ret.ok

\* ----------------------------------------------------------------- C25
RECURSIVE Total(_)
Total(s) == IF s = <<>> THEN 0 ELSE s[1] + Total(Tail(s))

\* C25 as claimed: for any slice of an unsigned or wrapping base, loading it
\* with vectorize_pad(splat(0)), summing the vectors with Sum and taking
\* horizontal_sum gives the sum of the elements modulo 2^width.
C25_SumIsModular ==
    Called("sum") => vop.ret.ok /\ vop.ret.val = Total(vop.slice) % 2 ^ BaseBits

\* C25: the same for a wrapping base and for a plain unsigned base in a
\* build without overflow checks; in a build with overflow checks the sum
\* over a plain unsigned base is given when it fits the base, and the call
\* panics when it does not.
C25_SumFollowsTheBase ==
    Called("sum") =>
        IF vop.base = "u8" /\ vop.checks /\ Total(vop.slice) >= 2 ^ BaseBits
        THEN ~vop.ret.ok
        ELSE vop.ret.ok /\ vop.ret.val = Total(vop.slice) % 2 ^ BaseBits

\* A wrapping sum that wrapped, over a slice with a padded tail.
C25_Witness ==
    /\ Called("sum") /\ vop.ret.ok
    /\ vop.base = "Wrapping<u8>"
    /\ Len(vop.slice) % vop.lanes # 0
    /\ Total(vop.slice) >= 2 ^ BaseBits

\* ----------------------------------------------------------------- C26
\* The elements of the slice a step changed.
Changed == {i \in 1..Len(buf) : buf'[i] # buf[i]}

C26_Step ==
    /\ Len(buf') = Len(buf)
    /\ WriteSlice =>
         \A k \in 1..Len(proxies) :
            Dropping(k) =>
               LET data == proxies[k].item.data
               IN  IF out[k].src # None
                   THEN LET first == Lanes * out[k].src[1]
                        IN  /\ Changed \subseteq (first + 1)..(first + Lanes)
                            /\ \A i \in 1..Lanes : buf'[first + i] = data[i]
                   ELSE /\ Changed \subseteq (Len(buf) - Rest + 1)..Len(buf)
                        /\ \A i \in 1..Rest : buf'[Len(buf) - Rest + i] = data[i]

\* C26: the drop of a write-back proxy changes only the elements of its own
\* window: the proxy of the full window k writes the elements k*N ..
\* k*N + N-1, the tail proxy writes the last len mod N elements from its
\* first len mod N lanes; every other element stays as it was, and the
\* lanes the pad supplied are written nowhere.
C26_DropWritesOwnWindow == [][C26_Step]_vars

\* The second full window and the tail were modified and dropped: the slice
\* holds their lanes there, the first window is as it was, and the tail
\* proxy's last lane, which the pad supplied, is no element of the slice.
C26_Witness ==
    /\ WriteSlice /\ Rest # 0 /\ NumFull >= 2
    /\ \E j, k \in 1..Len(proxies) :
         /\ proxies[j].st = "dropped" /\ proxies[j].nassign = 1 /\ out[j].src = Some(1)
         /\ proxies[k].st = "dropped" /\ proxies[k].nassign = 1 /\ out[k].src = None
         /\ Window(buf, Lanes, Lanes) = proxies[j].item.data
         /\ Window(buf, Lanes * NumFull, Rest) = Window(proxies[k].item.data, 0, Rest)
         /\ Window(buf, 0, Lanes) = Window(orig, 0, Lanes)
         /\ \A i \in 1..Len(buf) : buf[i] # proxies[k].item.data[Lanes]

\* ----------------------------------------------------------------- C27
\* Constituent j vectorized alone, with its own pad.
Alone(j) ==
    LET c == slice_create(input.parts[j], buf[j],
                          IF padv = None THEN None ELSE Some(padv[1][j]))
    IN  VectorizedIter(c.partial, c.vectorizer, 0, c.len)

\* The items of the constituents' own runs, side by side.
SideBySide(runs) ==
    [k \in 1..Len(runs[1]) |-> [j \in 1..Len(runs) |-> runs[j][k].item]]

ItemsOf(run) == [k \in 1..Len(run) |-> run[k].item]

\* C27: a tuple or array iterator advances its constituents in lockstep: its
\* k-th item is the tuple or array of the k-th items of the constituents
\* taken alone, and its padding item, when there is one, is that of the
\* constituents' own padding items, last from the front and first from the
\* back.
C27_Lockstep ==
    (Fresh /\ ~IsSlice(input)) =>
        LET n == Len(input.parts)
            front == [j \in 1..n |-> DrainFront(Alone(j), buf[j], Fuel)]
            back == [j \in 1..n |-> DrainBack(Alone(j), buf[j], Fuel)]
        IN  /\ \A j \in 1..n : Len(front[j]) = Len(Forward) /\ Len(back[j]) = Len(Backward)
            /\ ItemsOf(Forward) = SideBySide(front)
            /\ ItemsOf(Backward) = SideBySide(back)
            /\ it.partial # None =>
                  /\ \A j \in 1..n : Alone(j).partial # None
                  /\ it.partial[1] = [j \in 1..n |-> Alone(j).partial[1]]
                  /\ Forward[Len(Forward)].item = it.partial[1]
                  /\ Backward[1].item = it.partial[1]

\* A tuple of a mutable slice and a shared one of another lane count and
\* another length, with a full window and a padded tail each.
C27_Witness ==
    /\ Fresh /\ input.kind = "tuple"
    /\ input.parts[1].writable /\ ~input.parts[2].writable
    /\ input.parts[1].lanes # input.parts[2].lanes
    /\ Len(orig[1]) # Len(orig[2])
    /\ it.right = 1 /\ it.partial # None
    /\ Len(Forward) = 2 /\ Len(Backward) = 2

\* ----------------------------------------------------------------- C28
\* C28: blend validates its mask argument: called with a mask container
\* whose length differs from N, shorter or longer, it fails instead of
\* producing a result from a prefix of the mask.
C28_BlendValidatesMask ==
    (Called("blend") /\ Len(vop.mask) # vop.lanes) => ~vop.ret.ok

\* ----------------------------------------------------------------- C29
\* The proxies alive, and the orders they may be dropped in.
Alive == {k \in 1..Len(proxies) : proxies[k].st = "live"}
Orders(S) == {o \in [1..Cardinality(S) -> S] : \A a, b \in DOMAIN o : a # b => o[a] # o[b]}

\* The slice after the proxies are dropped in the order given.
RECURSIVE DropAll(_, _)
DropAll(order, s) ==
    IF order = <<>> THEN s
    ELSE DropAll(Tail(order), item_drop(input, proxies[Head(order)].item, s))

\* C29: when several write-back proxies of one iterator are alive at once,
\* the slice after all of them are dropped is the same for every order of
\* the drops, each window ending with its own proxy's lanes, whatever the
\* order they were obtained in by next and next_back.
C29_DropOrder ==
    WriteSlice =>
        \A o \in Orders(Alive) :
            /\ \A k \in Alive :
                 Restored(proxies[k].item, DropAll(o, buf)) =
                    Window(proxies[k].item.data, 0, proxies[k].item.len)
            /\ \A q \in Orders(Alive) : DropAll(q, buf) = DropAll(o, buf)

\* Three modified proxies are alive: the tail, obtained first from the back,
\* and two full windows obtained from the front and from the back; dropping
\* them changes the slice.
C29_Witness ==
    /\ WriteSlice
    /\ Cardinality(Alive) = 3
    /\ \A k \in Alive : proxies[k].nassign = 1
    /\ out[1].src = None /\ out[2].src = Some(0) /\ out[3].src = Some(1)
    /\ \A o \in Orders(Alive) : DropAll(o, buf) # buf

\* ----------------------------------------------------------------- C30
\* The element i of the slice lies in the window of a proxy that was
\* modified and then dropped.
Covered(i) ==
    \E k \in 1..Len(proxies) :
        /\ proxies[k].st = "dropped" /\ proxies[k].nassign > 0
        /\ i > proxies[k].item.start
        /\ i <= proxies[k].item.start + proxies[k].item.len

\* C30: an iterator made over a mutable slice by vectorize_pad, which builds
\* the tail proxy at once from a snapshot of the tail, may be dropped at any
\* point, with items not yielded or skipped by nth, count or last: every
\* element of the slice outside the windows of the modified and dropped
\* proxies keeps its original value.
C30_DroppedIterator ==
    (WriteSlice /\ padv # None /\ pc \in {"iter", "done"}) =>
        \A i \in 1..Len(buf) : ~Covered(i) => buf[i] = orig[i]

\* The iterator over a slice with a tail is gone with the tail never
\* yielded, after nth skipped a window; a proxy was modified and dropped and
\* is in the slice, another was dropped as it came.
C30_Witness ==
    /\ WriteSlice /\ padv # None /\ pc = "done"
    /\ Len(buf) % input.lanes # 0
    /\ skips
    /\ \A k \in 1..Len(out) : out[k].src # None
    /\ \E j, k \in 1..Len(proxies) :
         /\ proxies[j].st = "dropped" /\ proxies[j].nassign > 0
         /\ Restored(proxies[j].item, buf) # Restored(proxies[j].item, orig)
         /\ proxies[k].st = "dropped" /\ proxies[k].nassign = 0
    /\ \E i \in 1..Len(buf) : ~Covered(i) /\ orig[i] # padv[1][1]

====
